---- MODULE Spec2Model ----
(***************************************************************************)
(* Model of firecrawl-migrator:                                            *)
(*   - the crawl route handler  (src/src/app/api/crawl/route.ts, POST)     *)
(*   - the migrator page        (src/unnamed/part_000, ContentMigratorPage) *)
(* The specifications share the variables: Spec runs the route handler,    *)
(* SpecTree the tree builder, SpecUI the page component, SpecSelect its    *)
(* selection panel, SpecMap its tree panel with concurrent node maps,     *)
(* SpecInfer schema inference, SpecText the extraction from markdown,      *)
(* SpecShopify the Shopify export, SpecCsv the generic CSV export,         *)
(* SpecBatch the export step and SpecGet the route's GET handler.          *)
(***************************************************************************)
EXTENDS Integers, Sequences, FiniteSets, TLC

\* ------------------------------------------------------------------ bounds
MaxSel == 3        \* longest selectedUrls list of a crawl request
MaxCredits == 1    \* largest creditsUsed figure the fetcher reports
MaxTreeUrls == 3   \* longest url list handed to the tree builder on its own
MaxResp == 1       \* longest url list a map response carries
MaxUrls == 2       \* a node is mapped only while the working set is shorter
MaxMapping == 1    \* map requests of nodes in flight at a time
MaxConcurrent == 2 \* map requests of nodes in flight at a time in the tree panel on its own
MaxAnalyze == 1    \* site discoveries pending at a time
MaxSiteUrls == 3   \* longest url list a site discovery returns to the selection panel
MaxMatched == 2    \* most pattern-table entries a sample content matches
MaxInferCalls == 3 \* calls of schema inference in a row
MaxPieces == 3     \* most fragments a page's markdown is put together from
MaxFields == 1     \* most fields the first record of an export holds
MaxValueLen == 2   \* longest value of a field of a record of an export
MaxRecords == 2    \* longest record list of an export
MaxExportRecords == 127 \* most records on the export step
MaxTyped == 2      \* longest text typed into the batch size input
MaxExports == 1    \* exports started in a row

\* ---------------------------------------------------------- generic helpers
Range(s) == {s[i] : i \in 1..Len(s)}

SeqsUpTo(S, n) == UNION {[1..k -> S] : k \in 0..n}

RECURSIVE FilterSeq(_, _)
\* Array.prototype.filter with membership in a set as the predicate
FilterSeq(s, keep) ==
  IF s = <<>> THEN <<>>
  ELSE (IF Head(s) \in keep THEN <<Head(s)>> ELSE <<>>) \o FilterSeq(Tail(s), keep)

\* ------------------------------------------------------------------ schemas
\* A Schema value as the handler sees it: undefined, an object without a
\* properties member, or an object whose properties keep insertion order.
NoSchema == [defined |-> FALSE, hasProps |-> FALSE, properties |-> <<>>]
MalformedSchema == [defined |-> TRUE, hasProps |-> FALSE, properties |-> <<>>]
MkSchema(props) == [defined |-> TRUE, hasProps |-> TRUE, properties |-> props]
Field(n, t, d) == [name |-> n, type |-> t, description |-> d]

Keys(schema) == [i \in 1..Len(schema.properties) |-> schema.properties[i].name]

HasKey(schema, n) == \E i \in 1..Len(schema.properties) : schema.properties[i].name = n

\* schema.properties[n] = {type, description}: an existing key keeps its
\* position and takes the new value, a new key is appended
SetProp(schema, n, t, d) ==
  IF HasKey(schema, n)
  THEN [schema EXCEPT !.properties =
          [i \in 1..Len(schema.properties) |->
             IF schema.properties[i].name = n THEN Field(n, t, d)
             ELSE schema.properties[i]]]
  ELSE [schema EXCEPT !.properties = Append(schema.properties, Field(n, t, d))]

\* variant: the assignment is made whether or not the key is present
EnsureProp_Overwrite(schema, n, t, d) == SetProp(schema, n, t, d)

\* if (!schema.properties[n]) schema.properties[n] = {...}
EnsureProp(schema, n, t, d) == IF HasKey(schema, n) THEN schema ELSE SetProp(schema, n, t, d)

getDefaultSchema ==
  MkSchema(<<Field("title", "string", "Main title or heading"),
             Field("description", "string", "Content description"),
             Field("url", "string", "Source URL")>>)

\* the ordered pattern table of inferSchemaFromContent
patterns ==
  << Field("price", "string", "Product price"),
     Field("price", "string", "Price information"),
     Field("title", "string", "Main title or heading"),
     Field("description", "string", "Content description"),
     Field("image_url", "string", "Image URL"),
     Field("image_url", "string", "Image URL from markdown"),
     Field("category", "string", "Product or content category"),
     Field("tags", "array", "Content tags"),
     Field("phone", "string", "Phone number"),
     Field("email", "string", "Email address"),
     Field("address", "string", "Physical address"),
     Field("date", "string", "Date information"),
     Field("date", "string", "Date in ISO format"),
     Field("rating", "number", "Rating score"),
     Field("rating", "number", "Star rating"),
     Field("availability", "string", "Stock availability"),
     Field("availability", "string", "Stock availability"),
     Field("author", "string", "Content author"),
     Field("author", "string", "Author name"),
     Field("id", "string", "Unique identifier"),
     Field("sku", "string", "Product SKU") >>

RECURSIVE ApplyPatterns_KeepFirst(_, _, _)
\* variant: an entry assigns its field only while the field is absent
ApplyPatterns_KeepFirst(schema, i, matched) ==
  IF i > Len(patterns) THEN schema
  ELSE ApplyPatterns_KeepFirst(
         IF i \in matched
         THEN EnsureProp(schema, patterns[i].name, patterns[i].type, patterns[i].description)
         ELSE schema,
         i + 1, matched)

RECURSIVE ApplyPatterns(_, _, _)
\* patterns.forEach (route.ts 532-540): every entry whose regex matches
\* assigns its field
ApplyPatterns(schema, i, matched) ==
  IF i > Len(patterns) THEN schema
  ELSE ApplyPatterns(
         IF i \in matched
         THEN SetProp(schema, patterns[i].name, patterns[i].type, patterns[i].description)
         ELSE schema,
         i + 1, matched)

\* Sampled content is described by what the function reads from it: the set
\* of pattern-table entries whose regex matches, and the three substring
\* tests of the content-type section. The regex literals are evaluated anew
\* by every call and String.prototype.match starts a global regex at index 0,
\* so the set of matching entries is a function of the text.
patternPass(content) == ApplyPatterns(MkSchema(<<>>), 1, content.matched)

\* route.ts 542-549
basicFields(s) ==
  EnsureProp(EnsureProp(s,
    "title", "string", "Main title or name"),
    "description", "string", "Main content or description")

\* route.ts 552-557
productFields(s, content) ==
  IF content.product \/ HasKey(s, "price")
  THEN EnsureProp(EnsureProp(EnsureProp(s,
         "price", "string", "Product price"),
         "category", "string", "Product category"),
         "availability", "string", "Stock status")
  ELSE s

\* route.ts 559-564
articleFields(s, content) ==
  IF content.article
  THEN EnsureProp(EnsureProp(EnsureProp(s,
         "author", "string", "Article author"),
         "date", "string", "Publication date"),
         "tags", "array", "Article tags")
  ELSE s

\* route.ts 566-572
contactFields(s, content) ==
  IF content.contact \/ HasKey(s, "phone") \/ HasKey(s, "email")
  THEN EnsureProp(EnsureProp(EnsureProp(EnsureProp(s,
         "name", "string", "Business or person name"),
         "phone", "string", "Phone number"),
         "email", "string", "Email address"),
         "address", "string", "Physical address")
  ELSE s

\* route.ts 475-575
inferSchemaFromContent(content) ==
  contactFields(
    articleFields(
      productFields(basicFields(patternPass(content)), content),
      content),
    content)

\* ----------------------------------------------- schema inference on its own
RECURSIVE SubsetsUpTo(_, _)
\* the subsets of S with at most n elements
SubsetsUpTo(S, n) ==
  IF n = 0 THEN {{}}
  ELSE LET smaller == SubsetsUpTo(S, n - 1)
       IN smaller \cup {m \cup {x} : m \in smaller, x \in S}

\* contents of a scraped sample, by the pattern entries matching them
InferContents ==
  [ matched : SubsetsUpTo(1..Len(patterns), MaxMatched),
    product : BOOLEAN, article : BOOLEAN, contact : BOOLEAN ]

\* contents of the other samples inferred from in between
OtherContents ==
  { [matched |-> {}, product |-> FALSE, article |-> FALSE, contact |-> FALSE],
    [matched |-> {2, 9, 13}, product |-> TRUE, article |-> TRUE, contact |-> FALSE] }

VARIABLES
  inferSubject,  \* a sample content
  inferOther,    \* another sample content
  inferLog       \* the calls of inferSchemaFromContent so far: content and returned schema

inferVars == <<inferSubject, inferOther, inferLog>>

NoContent == [matched |-> {}, product |-> FALSE, article |-> FALSE, contact |-> FALSE]

InferIdle == inferSubject = NoContent /\ inferOther = NoContent /\ inferLog = <<>>

InferInit ==
  /\ inferSubject \in InferContents
  /\ inferOther \in OtherContents
  /\ inferLog = <<>>

\* variant: the schema object of the previous call is filled further
infer_Reusing(content) ==
  /\ Len(inferLog) < MaxInferCalls
  /\ LET fresh == inferSchemaFromContent(content)
         prev == IF inferLog = <<>> THEN MkSchema(<<>>) ELSE inferLog[Len(inferLog)].schema
         added == FilterSeq(fresh.properties,
                            {f \in Range(fresh.properties) : ~HasKey(prev, f.name)})
     IN inferLog' = Append(inferLog,
                           [content |-> content, schema |-> MkSchema(prev.properties \o added)])
  /\ UNCHANGED <<inferSubject, inferOther>>

\* one call of inferSchemaFromContent (route.ts 147)
infer(content) ==
  /\ Len(inferLog) < MaxInferCalls
  /\ inferLog' = Append(inferLog,
                        [content |-> content, schema |-> inferSchemaFromContent(content)])
  /\ UNCHANGED <<inferSubject, inferOther>>

\* ------------------------------------------------- text and regular expressions
\* A string is a sequence of characters. A regular expression is a sequence
\* of elements; RegExp.prototype.exec is modelled by what it does: it tries the
\* start positions from the left and, at each, the alternatives in order and
\* the repetitions from the longest down, and stops at the first success.
WS == {" ", "\n"}

Digits == {"0", "1", "2", "3", "4", "5", "6", "7", "8", "9"}

UpperCase == <<"A", "B", "C", "D", "E", "F", "G", "H", "I", "J", "K", "L", "M", "N", "O", "P", "Q", "R", "S", "T", "U", "V", "W", "X", "Y", "Z">>

LowerCase == <<"a", "b", "c", "d", "e", "f", "g", "h", "i", "j", "k", "l", "m", "n", "o", "p", "q", "r", "s", "t", "u", "v", "w", "x", "y", "z">>

\* String.prototype.toLowerCase on one character; also the i flag
ToLower(c) ==
  IF \E i \in 1..Len(UpperCase) : UpperCase[i] = c
  THEN LowerCase[CHOOSE i \in 1..Len(UpperCase) : UpperCase[i] = c]
  ELSE c

\* regex elements
Bol == [k |-> "bol", neg |-> FALSE, set |-> {}, min |-> 0, max |-> 0, alts |-> <<>>]
Eol == [k |-> "eol", neg |-> FALSE, set |-> {}, min |-> 0, max |-> 0, alts |-> <<>>]
Open == [k |-> "open", neg |-> FALSE, set |-> {}, min |-> 0, max |-> 0, alts |-> <<>>]
Close == [k |-> "close", neg |-> FALSE, set |-> {}, min |-> 0, max |-> 0, alts |-> <<>>]
Cls(S, lo, hi) == [k |-> "cls", neg |-> FALSE, set |-> S, min |-> lo, max |-> hi, alts |-> <<>>]
NotCls(S, lo, hi) == [k |-> "cls", neg |-> TRUE, set |-> S, min |-> lo, max |-> hi, alts |-> <<>>]
Lit(c) == Cls({c}, 1, 1)
AltI(words) == [k |-> "alt", neg |-> FALSE, set |-> {}, min |-> 0, max |-> 0, alts |-> words]

\* stands for no upper limit of a repetition: longer than any text
Unlimited == 1000

NoMatch == [ok |-> FALSE, from |-> 0, to |-> 0, gs |-> 0, ge |-> 0]

InClass(c, e) == IF e.neg THEN c \notin e.set ELSE c \in e.set

RECURSIVE RunLength(_, _, _, _)
\* the number of characters from pos on that belong to the class, at most
\* limit
RunLength(str, pos, e, limit) ==
  IF limit = 0 \/ pos > Len(str) \/ ~InClass(str[pos], e) THEN 0
  ELSE 1 + RunLength(str, pos + 1, e, limit - 1)

\* a word of an alternation stands at pos, letter case ignored
WordAt(str, pos, w) ==
  /\ pos + Len(w) - 1 <= Len(str)
  /\ \A i \in 1..Len(w) : ToLower(str[pos + i - 1]) = ToLower(w[i])

RECURSIVE MatchAt(_, _, _, _, _, _, _)
RECURSIVE TryCount(_, _, _, _, _, _, _, _)
RECURSIVE TryAlts(_, _, _, _, _, _, _, _)

\* the elements from k on match at pos; from is the start of the whole
\* match, gs and ge delimit capture group 1
MatchAt(re, k, str, pos, from, gs, ge) ==
  IF k > Len(re) THEN [ok |-> TRUE, from |-> from, to |-> pos - 1, gs |-> gs, ge |-> ge]
  ELSE IF re[k].k = "bol"
  THEN IF pos = 1 \/ str[pos - 1] = "\n"
       THEN MatchAt(re, k + 1, str, pos, from, gs, ge) ELSE NoMatch
  ELSE IF re[k].k = "eol"
  THEN IF pos = Len(str) + 1 \/ str[pos] = "\n"
       THEN MatchAt(re, k + 1, str, pos, from, gs, ge) ELSE NoMatch
  ELSE IF re[k].k = "open" THEN MatchAt(re, k + 1, str, pos, from, pos, ge)
  ELSE IF re[k].k = "close" THEN MatchAt(re, k + 1, str, pos, from, gs, pos - 1)
  ELSE IF re[k].k = "cls"
  THEN TryCount(re, k, str, pos, from, gs, ge, RunLength(str, pos, re[k], re[k].max))
  ELSE TryAlts(re, k, str, pos, from, gs, ge, 1)

\* greedy repetition: n characters, then fewer
TryCount(re, k, str, pos, from, gs, ge, n) ==
  IF n < re[k].min THEN NoMatch
  ELSE LET r == MatchAt(re, k + 1, str, pos + n, from, gs, ge)
       IN IF r.ok THEN r ELSE TryCount(re, k, str, pos, from, gs, ge, n - 1)

\* alternation: the words in the order written
TryAlts(re, k, str, pos, from, gs, ge, a) ==
  IF a > Len(re[k].alts) THEN NoMatch
  ELSE LET r == IF WordAt(str, pos, re[k].alts[a])
                THEN MatchAt(re, k + 1, str, pos + Len(re[k].alts[a]), from, gs, ge)
                ELSE NoMatch
       IN IF r.ok THEN r ELSE TryAlts(re, k, str, pos, from, gs, ge, a + 1)

RECURSIVE Search(_, _, _)
\* String.prototype.match with a regex without the g flag: the leftmost match
Search(re, str, start) ==
  IF start > Len(str) + 1 THEN NoMatch
  ELSE LET r == MatchAt(re, 1, str, start, start, 0, 0)
       IN IF r.ok THEN r ELSE Search(re, str, start + 1)

\* match[1] and match[0]
Group1(str, m) == SubSeq(str, m.gs, m.ge)

Group0(str, m) == SubSeq(str, m.from, m.to)

RECURSIVE TrimStart(_)
TrimStart(str) == IF str # <<>> /\ Head(str) \in WS THEN TrimStart(Tail(str)) ELSE str

RECURSIVE TrimEnd(_)
TrimEnd(str) ==
  IF str # <<>> /\ str[Len(str)] \in WS THEN TrimEnd(SubSeq(str, 1, Len(str) - 1)) ELSE str

\* String.prototype.trim
Trim(str) == TrimEnd(TrimStart(str))

\* markdown.split('\n')[0]
FirstLine(str) == SubSeq(str, 1, RunLength(str, 1, NotCls({"\n"}, 0, 0), Len(str)))

\* ------------------------------------------- extraction from markdown
\* /^#\s+(.+)$/m and /^##\s+(.+)$/m (route.ts 592, 596)
h1Regex == <<Bol, Lit("#"), Cls(WS, 1, Unlimited), Open, NotCls({"\n"}, 1, Unlimited), Close, Eol>>

h2Regex ==
  <<Bol, Lit("#"), Lit("#"), Cls(WS, 1, Unlimited), Open, NotCls({"\n"}, 1, Unlimited), Close, Eol>>

\* variant: without a heading the title is the first line that is not blank
extractTitleFromMarkdown_NonEmptyLine(markdown) ==
  LET h1Match == Search(h1Regex, markdown, 1)
      h2Match == Search(h2Regex, markdown, 1)
  IN IF h1Match.ok THEN Trim(Group1(markdown, h1Match))
     ELSE IF h2Match.ok THEN Trim(Group1(markdown, h2Match))
     ELSE Trim(FirstLine(TrimStart(markdown)))

\* route.ts 590-602
extractTitleFromMarkdown(markdown) ==
  LET h1Match == Search(h1Regex, markdown, 1)
      h2Match == Search(h2Regex, markdown, 1)
      firstLine == FirstLine(markdown)
  IN IF h1Match.ok THEN Trim(Group1(markdown, h1Match))
     ELSE IF h2Match.ok THEN Trim(Group1(markdown, h2Match))
     ELSE IF firstLine # <<>> THEN Trim(firstLine) ELSE <<>>

FullMonths ==
  << <<"J", "a", "n", "u", "a", "r", "y">>,
     <<"F", "e", "b", "r", "u", "a", "r", "y">>,
     <<"M", "a", "r", "c", "h">>,
     <<"A", "p", "r", "i", "l">>,
     <<"M", "a", "y">>,
     <<"J", "u", "n", "e">>,
     <<"J", "u", "l", "y">>,
     <<"A", "u", "g", "u", "s", "t">>,
     <<"S", "e", "p", "t", "e", "m", "b", "e", "r">>,
     <<"O", "c", "t", "o", "b", "e", "r">>,
     <<"N", "o", "v", "e", "m", "b", "e", "r">>,
     <<"D", "e", "c", "e", "m", "b", "e", "r">> >>

ShortMonths ==
  << <<"J", "a", "n">>,
     <<"F", "e", "b">>,
     <<"M", "a", "r">>,
     <<"A", "p", "r">>,
     <<"M", "a", "y">>,
     <<"J", "u", "n">>,
     <<"J", "u", "l">>,
     <<"A", "u", "g">>,
     <<"S", "e", "p">>,
     <<"O", "c", "t">>,
     <<"N", "o", "v">>,
     <<"D", "e", "c">> >>

\* route.ts 606-612, in the order written
datePatterns ==
  << <<Open, Cls(Digits, 4, 4), Lit("-"), Cls(Digits, 2, 2), Lit("-"), Cls(Digits, 2, 2), Close>>,
     <<Open, Cls(Digits, 1, 2), Lit("/"), Cls(Digits, 1, 2), Lit("/"), Cls(Digits, 4, 4), Close>>,
     <<Open, AltI(FullMonths), Close, Cls(WS, 1, Unlimited), Cls(Digits, 1, 2), Cls({","}, 0, 1),
       Cls(WS, 1, Unlimited), Cls(Digits, 4, 4)>>,
     <<Open, Cls(Digits, 1, 2), Cls(WS, 1, Unlimited), AltI(ShortMonths), Cls(WS, 1, Unlimited),
       Cls(Digits, 4, 4), Close>>,
     <<Open, AltI(ShortMonths), Close, Cls(WS, 1, Unlimited), Cls(Digits, 1, 2), Cls({","}, 0, 1),
       Cls(WS, 1, Unlimited), Cls(Digits, 4, 4)>> >>

RECURSIVE FirstDateMatch(_, _)
\* route.ts 614-617: the match of the first pattern that matches, and which
\* pattern it is
FirstDateMatch(markdown, i) ==
  IF i > Len(datePatterns) THEN [pattern |-> 0, match |-> NoMatch]
  ELSE LET match == Search(datePatterns[i], markdown, 1)
       IN IF match.ok THEN [pattern |-> i, match |-> match]
          ELSE FirstDateMatch(markdown, i + 1)

\* route.ts 604-620
extractDateFromMarkdown(markdown) ==
  LET found == FirstDateMatch(markdown, 1)
  IN IF found.match.ok THEN Group1(markdown, found.match) ELSE <<>>

\* --------------------------------- extraction from markdown on its own
RECURSIVE Concat(_)
\* the fragments of a sequence joined into one string
Concat(parts) == IF parts = <<>> THEN <<>> ELSE Head(parts) \o Concat(Tail(parts))

\* fragments of markdown with headings
TitlePieces ==
  { <<"#", " ", "a">>, <<"#", "#", " ", "b">>, <<"c">>, <<"\n">>, <<" ">>, <<"#">> }

\* fragments of markdown with dates
DatePieces ==
  { <<"P", "u", "b", "l", "i", "s", "h", "e", "d", " ">>, <<"O", "c", "t", " ", "2", "1", ",", " ", "2", "0", "2", "4">>, <<"2", "0", "2", "4", "-", "0", "3", "-", "0", "5">>, <<"3", "/", "5", "/", "2", "0", "2", "4">>,
    <<"M", "a", "r", "c", "h", " ", "5", ",", " ", "2", "0", "2", "4">>, <<"5", " ", "M", "a", "r", " ", "2", "0", "2", "4">>, <<" ">>, <<"x">> }

\* a page of crawlResult.data without json: its markdown, metadata.title and
\* metadata.publishedTime (empty when absent)
MarkdownPages ==
  [ markdown : {Concat(parts) : parts \in SeqsUpTo(TitlePieces, MaxPieces)}
                 \cup {Concat(parts) : parts \in SeqsUpTo(DatePieces, MaxPieces)},
    title : {<<>>, <<"m">>},
    publishedTime : {<<>>, <<"t">>} ]

NoPage == [markdown |-> <<>>, title |-> <<>>, publishedTime |-> <<>>]

NoData == [done |-> FALSE, title |-> <<>>, date |-> <<>>]

VARIABLES
  mdPage,            \* a mdPage of crawlResult.data
  structuredData   \* the record extracted from it

textVars == <<mdPage, structuredData>>

TextIdle == mdPage = NoPage /\ structuredData = NoData

TextInit == mdPage \in MarkdownPages /\ structuredData = NoData

\* a || b on strings
OrText(a, b) == IF a # <<>> THEN a ELSE b

\* route.ts 309-318, for a schema with the keys title and date
extractFromMarkdown ==
  /\ ~structuredData.done
  /\ structuredData' =
       [ done |-> TRUE,
         title |-> OrText(mdPage.title, extractTitleFromMarkdown(mdPage.markdown)),
         date |-> OrText(mdPage.publishedTime, extractDateFromMarkdown(mdPage.markdown)) ]
  /\ UNCHANGED mdPage

\* ------------------------------------------------- Shopify CSV (part_000)
\* the keys of a record that formatShopifyCSV reads
ItemKeys ==
  { "title", "description", "content", "vendor", "product_type", "type", "tags",
    "sku", "weight", "inventory_quantity", "stock", "price", "compare_at_price",
    "barcode", "image_url", "image" }

\* a record maps each key to the text String(...) makes of its value; the
\* empty text stands for a key that is absent or falsy
EmptyItem == [key \in ItemKeys |-> <<>>]

shopifyHeaders ==
  << <<"H", "a", "n", "d", "l", "e">>,
     <<"T", "i", "t", "l", "e">>,
     <<"B", "o", "d", "y", " ", "(", "H", "T", "M", "L", ")">>,
     <<"V", "e", "n", "d", "o", "r">>,
     <<"T", "y", "p", "e">>,
     <<"T", "a", "g", "s">>,
     <<"P", "u", "b", "l", "i", "s", "h", "e", "d">>,
     <<"O", "p", "t", "i", "o", "n", "1", " ", "N", "a", "m", "e">>,
     <<"O", "p", "t", "i", "o", "n", "1", " ", "V", "a", "l", "u", "e">>,
     <<"V", "a", "r", "i", "a", "n", "t", " ", "S", "K", "U">>,
     <<"V", "a", "r", "i", "a", "n", "t", " ", "G", "r", "a", "m", "s">>,
     <<"V", "a", "r", "i", "a", "n", "t", " ", "I", "n", "v", "e", "n", "t", "o", "r", "y", " ", "T", "r", "a", "c", "k", "e", "r">>,
     <<"V", "a", "r", "i", "a", "n", "t", " ", "I", "n", "v", "e", "n", "t", "o", "r", "y", " ", "Q", "t", "y">>,
     <<"V", "a", "r", "i", "a", "n", "t", " ", "I", "n", "v", "e", "n", "t", "o", "r", "y", " ", "P", "o", "l", "i", "c", "y">>,
     <<"V", "a", "r", "i", "a", "n", "t", " ", "F", "u", "l", "f", "i", "l", "l", "m", "e", "n", "t", " ", "S", "e", "r", "v", "i", "c", "e">>,
     <<"V", "a", "r", "i", "a", "n", "t", " ", "P", "r", "i", "c", "e">>,
     <<"V", "a", "r", "i", "a", "n", "t", " ", "C", "o", "m", "p", "a", "r", "e", " ", "A", "t", " ", "P", "r", "i", "c", "e">>,
     <<"V", "a", "r", "i", "a", "n", "t", " ", "R", "e", "q", "u", "i", "r", "e", "s", " ", "S", "h", "i", "p", "p", "i", "n", "g">>,
     <<"V", "a", "r", "i", "a", "n", "t", " ", "T", "a", "x", "a", "b", "l", "e">>,
     <<"V", "a", "r", "i", "a", "n", "t", " ", "B", "a", "r", "c", "o", "d", "e">>,
     <<"I", "m", "a", "g", "e", " ", "S", "r", "c">>,
     <<"I", "m", "a", "g", "e", " ", "P", "o", "s", "i", "t", "i", "o", "n">>,
     <<"I", "m", "a", "g", "e", " ", "A", "l", "t", " ", "T", "e", "x", "t">>,
     <<"G", "i", "f", "t", " ", "C", "a", "r", "d">>,
     <<"S", "E", "O", " ", "T", "i", "t", "l", "e">>,
     <<"S", "E", "O", " ", "D", "e", "s", "c", "r", "i", "p", "t", "i", "o", "n">>,
     <<"V", "a", "r", "i", "a", "n", "t", " ", "W", "e", "i", "g", "h", "t", " ", "U", "n", "i", "t">>,
     <<"S", "t", "a", "t", "u", "s">> >>

SeoTitleMax == 70

SeoDescriptionMax == 320

\* String.prototype.substring(0, n)
Substring(str, n) == SubSeq(str, 1, IF Len(str) < n THEN Len(str) ELSE n)

DigitChars == <<"0", "1", "2", "3", "4", "5", "6", "7", "8", "9">>

RECURSIVE NumText(_)
\* a number in a template literal
NumText(n) ==
  IF n < 10 THEN <<DigitChars[n + 1]>>
  ELSE NumText(n \div 10) \o <<DigitChars[(n % 10) + 1]>>

\* [a-z0-9]
HandleChars == {LowerCase[i] : i \in 1..Len(LowerCase)} \cup Digits

RECURSIVE DashRuns(_, _)
\* lower case, and each run of characters outside [a-z0-9] replaced by one
\* hyphen; inRun says that the character before belonged to such a run
DashRuns(str, inRun) ==
  IF str = <<>> THEN <<>>
  ELSE IF ToLower(Head(str)) \in HandleChars
       THEN <<ToLower(Head(str))>> \o DashRuns(Tail(str), FALSE)
       ELSE (IF inRun THEN <<>> ELSE <<"-">>) \o DashRuns(Tail(str), TRUE)

\* replace(/^-|-$/g, '')
StripHyphens(str) ==
  LET a == IF str # <<>> /\ Head(str) = "-" THEN Tail(str) ELSE str
  IN IF a # <<>> /\ a[Len(a)] = "-" THEN SubSeq(a, 1, Len(a) - 1) ELSE a

handleOf(title) == StripHyphens(DashRuns(title, FALSE))

\* the 28 values of a record, in the order of the headers; index counts
\* from 0
shopifyRow(item, index) ==
  LET title == OrText(item["title"], <<"P", "r", "o", "d", "u", "c", "t", " ">> \o NumText(index + 1))
      body == OrText(item["description"], item["content"])
      img == OrText(item["image_url"], item["image"])
  IN << handleOf(title),
        title,
        body,
        OrText(item["vendor"], <<"D", "e", "f", "a", "u", "l", "t", " ", "V", "e", "n", "d", "o", "r">>),
        OrText(item["product_type"], item["type"]),
        item["tags"],
        <<"T", "R", "U", "E">>,
        <<"T", "i", "t", "l", "e">>,
        <<"D", "e", "f", "a", "u", "l", "t", " ", "T", "i", "t", "l", "e">>,
        item["sku"],
        OrText(item["weight"], <<"0">>),
        <<"s", "h", "o", "p", "i", "f", "y">>,
        OrText(OrText(item["inventory_quantity"], item["stock"]), <<"0">>),
        <<"d", "e", "n", "y">>,
        <<"m", "a", "n", "u", "a", "l">>,
        OrText(item["price"], <<"0">>),
        item["compare_at_price"],
        <<"T", "R", "U", "E">>,
        <<"T", "R", "U", "E">>,
        item["barcode"],
        img,
        IF img # <<>> THEN <<"1">> ELSE <<>>,
        IF img # <<>> THEN title ELSE <<>>,
        <<"F", "A", "L", "S", "E">>,
        Substring(title, SeoTitleMax),
        Substring(body, SeoDescriptionMax),
        <<"g">>,
        <<"a", "c", "t", "i", "v", "e">> >>

Includes(str, c) == \E i \in 1..Len(str) : str[i] = c

RECURSIVE DoubleQuotes(_)
\* replace(/"/g, '""')
DoubleQuotes(str) ==
  IF str = <<>> THEN <<>>
  ELSE (IF Head(str) = "\"" THEN <<"\"", "\"">> ELSE <<Head(str)>>)
         \o DoubleQuotes(Tail(str))

RECURSIVE SpaceForNewlines(_)
\* replace(/\r?\n/g, ' ')
SpaceForNewlines(str) ==
  IF str = <<>> THEN <<>>
  ELSE IF Head(str) = "\n" THEN <<" ">> \o SpaceForNewlines(Tail(str))
  ELSE IF Head(str) = "\r" /\ Len(str) >= 2 /\ str[2] = "\n"
       THEN <<" ">> \o SpaceForNewlines(Tail(Tail(str)))
  ELSE <<Head(str)>> \o SpaceForNewlines(Tail(str))

\* one value of a row as it is written (part_000 1001-1006)
shopifyField(value) ==
  IF Includes(value, "\"") \/ Includes(value, ",") \/ Includes(value, "\n")
  THEN <<"\"">> \o SpaceForNewlines(DoubleQuotes(value)) \o <<"\"">>
  ELSE value

RECURSIVE Join(_, _)
\* Array.prototype.join
Join(parts, sep) ==
  IF parts = <<>> THEN <<>>
  ELSE IF Len(parts) = 1 THEN parts[1]
  ELSE parts[1] \o sep \o Join(Tail(parts), sep)

formatShopifyCSV(data) ==
  IF Len(data) = 0 THEN <<>>
  ELSE LET rows == [i \in 1..Len(data) |->
                      LET row == shopifyRow(data[i], i - 1)
                      IN Join([h \in 1..Len(shopifyHeaders) |-> shopifyField(row[h])], <<",">>)]
       IN Join(<<Join(shopifyHeaders, <<",">>)>> \o rows, <<"\n">>)

\* the characters of the values of the records
ValueChars == {"a", ",", "\"", "\n", "\r"}

FieldValues == SeqsUpTo(ValueChars, MaxValueLen) \ {<<>>}

\* records with at most MaxFields fields
ShopifyItems ==
  { [key \in ItemKeys |-> IF key \in present THEN value[key] ELSE <<>>] :
      present \in SubsetsUpTo(ItemKeys, MaxFields), value \in [ItemKeys -> {<<"a">>}] }
  \cup
  { [EmptyItem EXCEPT ![key] = v] : key \in ItemKeys, v \in FieldValues }

\* the records that follow the first one
MoreItems ==
  { EmptyItem,
    [EmptyItem EXCEPT !["title"] = <<"A", " ", "b">>, !["price"] = <<"1", ",", "5">>] }

\* crawlData at the time of an export: never empty (part_000 797-800)
RecordLists ==
  { <<first>> \o rest : first \in ShopifyItems, rest \in SeqsUpTo(MoreItems, MaxRecords - 1) }

VARIABLES
  exportItems,     \* the records handed to formatExportData
  exportData       \* the text it returns

csvVars == <<exportItems, exportData>>

NoExport == [done |-> FALSE, text |-> <<>>]

CsvIdle == exportItems = <<>> /\ exportData = NoExport

CsvInit == exportItems \in RecordLists /\ exportData = NoExport

\* formatExportData(data, 'shopify')
formatExportData_shopify ==
  /\ ~exportData.done
  /\ exportData' = [done |-> TRUE, text |-> formatShopifyCSV(exportItems)]
  /\ UNCHANGED exportItems

\* ------------------------------------------------- generic CSV (part_000)
\* a value of a record: a string, a number, null or an array of strings
StrVal(str) == [t |-> "string", s |-> str, n |-> 0, items |-> <<>>]

NumVal(n) == [t |-> "number", s |-> <<>>, n |-> n, items |-> <<>>]

NullVal == [t |-> "null", s |-> <<>>, n |-> 0, items |-> <<>>]

ArrVal(items) == [t |-> "array", s |-> <<>>, n |-> 0, items |-> items]

\* a record is the sequence of its keys with their values, in the order of
\* insertion
Entry(key, value) == [key |-> key, value |-> value]

\* Object.keys(item)
ObjectKeys(item) == [i \in 1..Len(item) |-> item[i].key]

\* Object.values(item)
ObjectValues(item) == [i \in 1..Len(item) |-> item[i].value]

\* what Array.prototype.join makes of an element: nothing of null, the
\* elements joined by commas of an array
joinedText(v) ==
  IF v.t = "string" THEN v.s
  ELSE IF v.t = "number" THEN NumText(v.n)
  ELSE IF v.t = "null" THEN <<>>
  ELSE Join(v.items, <<",">>)

\* part_000 935-942: one value of a row
csvCell(v) ==
  IF v.t = "string"
  THEN <<"\"">> \o DoubleQuotes(SpaceForNewlines(v.s)) \o <<"\"">>
  ELSE joinedText(v)

\* part_000 930-946
convertToCSV(data) ==
  IF Len(data) = 0 THEN <<>>
  ELSE LET headers == Join(ObjectKeys(data[1]), <<",">>)
           rows == [i \in 1..Len(data) |->
                      Join([k \in 1..Len(data[i]) |-> csvCell(ObjectValues(data[i])[k])], <<",">>)]
       IN Join(<<headers>> \o rows, <<"\n">>)

\* the values of the first key of the first record
GenericValues ==
  {StrVal(str) : str \in FieldValues}
  \cup {NumVal(7), NullVal, ArrVal(<<<<"x">>, <<"y">>>>)}

\* first records: one key, or two keys in either order
FirstRecords ==
  { <<Entry(k, v)>> : k \in {<<"a">>, <<"b">>}, v \in GenericValues }
  \cup { <<Entry(k[1], v), Entry(k[2], w)>> :
           k \in {<<<<"a">>, <<"b">>>>, <<<<"b">>, <<"a">>>>},
           v \in GenericValues, w \in {StrVal(<<"c">>), NullVal} }

\* the records that follow the first one
MoreRecords ==
  { <<Entry(<<"a">>, StrVal(<<"c">>))>>,
    <<Entry(<<"b">>, StrVal(<<"d">>)), Entry(<<"a">>, StrVal(<<"c">>))>>,
    <<Entry(<<"a">>, StrVal(<<"c">>)), Entry(<<"b">>, NullVal)>> }

GenericRecordLists ==
  { <<first>> \o rest : first \in FirstRecords, rest \in SeqsUpTo(MoreRecords, MaxRecords - 1) }

GenericInit == exportItems \in GenericRecordLists /\ exportData = NoExport

\* formatExportData(data, format) for csv, woocommerce, drupal and wix
formatExportData_csv ==
  /\ ~exportData.done
  /\ exportData' = [done |-> TRUE, text |-> convertToCSV(exportItems)]
  /\ UNCHANGED exportItems

\* ------------------------------------------- batched export (part_000)
\* a JavaScript number: an integer, NaN, Infinity or -Infinity
IntNum(v) == [kind |-> "int", v |-> v]

NaN == [kind |-> "NaN", v |-> 0]

Infinity == [kind |-> "Infinity", v |-> 0]

NegInfinity == [kind |-> "-Infinity", v |-> 0]

DigitValue(c) == CHOOSE v \in 0..9 : DigitChars[v + 1] = c

RECURSIVE DigitsValue(_, _)
\* the value of the longest run of digits at the start of str, after acc
DigitsValue(str, acc) ==
  IF str = <<>> \/ Head(str) \notin Digits THEN acc
  ELSE DigitsValue(Tail(str), 10 * acc + DigitValue(Head(str)))

\* parseInt(text): white space, a sign, then digits; NaN without a digit
parseInt(text) ==
  LET t == TrimStart(text)
      signed == t # <<>> /\ Head(t) \in {"-", "+"}
      body == IF signed THEN Tail(t) ELSE t
  IN IF body = <<>> \/ Head(body) \notin Digits THEN NaN
     ELSE IF signed /\ Head(t) = "-" THEN IntNum(0 - DigitsValue(body, 0))
     ELSE IntNum(DigitsValue(body, 0))

\* a || b on numbers: b when a is 0 or NaN
OrNum(a, b) == IF a.kind = "NaN" \/ (a.kind = "int" /\ a.v = 0) THEN b ELSE a

\* Math.max(a, b): NaN when one of them is NaN
MathMax(a, b) ==
  IF a.kind = "NaN" \/ b.kind = "NaN" THEN NaN
  ELSE IF a.kind = "Infinity" \/ b.kind = "Infinity" THEN Infinity
  ELSE IF a.kind = "-Infinity" THEN b
  ELSE IF b.kind = "-Infinity" THEN a
  ELSE IF a.v >= b.v THEN a ELSE b

DefaultBatchSize == 50

\* Math.ceil(n / size) for a count n >= 0
fileCountOf(n, size) ==
  IF size.kind = "NaN" THEN NaN
  ELSE IF size.kind \in {"Infinity", "-Infinity"} THEN IntNum(IF size.kind = "Infinity" /\ n > 0 THEN 1 ELSE 0)
  ELSE IF size.v = 0 THEN (IF n = 0 THEN NaN ELSE Infinity)
  ELSE IF size.v > 0 THEN IntNum((n + size.v - 1) \div size.v)
  ELSE IntNum(0 - (n \div (0 - size.v)))

\* the export formats and the extension of each (part_000 1146-1156)
ExportFormats == {"csv", "wordpress"}

extensionOf(format) == IF format = "csv" THEN "csv" ELSE "xml"

\* formatExportData(data, format): the records serialized for the format
Formatted(data, format) == [format |-> format, records |-> data]

\* data.slice(from, to) with 0-based from and to
Slice(data, from, to) ==
  SubSeq(data, from + 1, IF to < Len(data) THEN to ELSE Len(data))

RECURSIVE batchesFrom_Short(_, _, _)
\* variant: each batch ends one record early
batchesFrom_Short(data, size, i) ==
  IF i >= Len(data) THEN <<>>
  ELSE <<Slice(data, i, i + size - 1)>> \o batchesFrom_Short(data, size, i + size)

RECURSIVE batchesFrom(_, _, _)
\* part_000 1142-1145: the loop from index i on
batchesFrom(data, size, i) ==
  IF i >= Len(data) THEN <<>>
  ELSE <<Slice(data, i, i + size)>> \o batchesFrom(data, size, i + size)

\* part_000 1138-1181: the archive with one file per batch
downloadBatchedFiles(data, size, format) ==
  LET batches == batchesFrom(data, size, 0)
  IN [ name |-> [stem |-> "export-", part |-> 0, ext |-> "zip"],
       files |-> [i \in 1..Len(batches) |->
                    [ name |-> [stem |-> "export-part", part |-> i, ext |-> extensionOf(format)],
                      content |-> Formatted(batches[i], format) ]] ]

\* part_000 1112-1136: one file named by the time of the download
downloadFile(content, format) ==
  [ name |-> [stem |-> "export-", part |-> 0, ext |-> extensionOf(format)],
    files |-> <<[ name |-> [stem |-> "export-", part |-> 0, ext |-> extensionOf(format)],
                  content |-> content ]>> ]

\* the texts typed into the batch size input
TypedChars == {"0", "5", "-", "a"}

TypedTexts == SeqsUpTo(TypedChars, MaxTyped)

VARIABLES
  batchData,      \* crawlData on the export step: the records, numbered
  batchSize,      \* useState(50)
  batchTyped,     \* the text last typed into the batch size input
  exportFormat,   \* useState('webflow'), as chosen on the export step
  exportTimer,    \* the setTimeout callback of startExport, with what it closes over
  exportAlert,    \* alert() of startExport was shown
  downloads       \* the downloads started, in order

batchVars == <<batchData, batchSize, batchTyped, exportFormat, exportTimer, exportAlert, downloads>>

NoTimer == [pending |-> FALSE, data |-> <<>>, size |-> IntNum(0), format |-> ""]

BatchIdle ==
  /\ batchData = <<>>
  /\ batchSize = IntNum(DefaultBatchSize)
  /\ batchTyped = <<>>
  /\ exportFormat = ""
  /\ exportTimer = NoTimer
  /\ exportAlert = FALSE
  /\ downloads = <<>>

BatchInit ==
  /\ batchData \in {[i \in 1..n |-> i] : n \in 0..MaxExportRecords}
  /\ batchSize = IntNum(DefaultBatchSize)
  /\ batchTyped = <<>>
  /\ exportFormat \in ExportFormats
  /\ exportTimer = NoTimer
  /\ exportAlert = FALSE
  /\ downloads = <<>>

\* variant: the batch size is what parseInt makes of the text
setBatchSize_Parsed(text) ==
  /\ batchTyped' = text
  /\ batchSize' = parseInt(text)
  /\ UNCHANGED <<batchData, exportFormat, exportTimer, exportAlert, downloads>>

\* part_000 1979: onChange of the batch size input
setBatchSize(text) ==
  /\ batchTyped' = text
  /\ batchSize' = MathMax(IntNum(1), OrNum(parseInt(text), IntNum(DefaultBatchSize)))
  /\ UNCHANGED <<batchData, exportFormat, exportTimer, exportAlert, downloads>>

\* part_000 796-805: the click on the export button
startExport ==
  /\ ~exportTimer.pending
  /\ Len(downloads) < MaxExports
  /\ IF Len(batchData) = 0
     THEN exportAlert' = TRUE /\ UNCHANGED exportTimer
     ELSE /\ exportTimer' = [pending |-> TRUE, data |-> batchData, size |-> batchSize,
                             format |-> exportFormat]
          /\ UNCHANGED exportAlert
  /\ UNCHANGED <<batchData, batchSize, batchTyped, exportFormat, downloads>>

\* part_000 805-820: the callback of the timer
startExport_Timer ==
  /\ exportTimer.pending
  /\ LET fileCount == fileCountOf(Len(exportTimer.data), exportTimer.size)
     IN downloads' =
          Append(downloads,
                 IF fileCount = IntNum(1)
                 THEN downloadFile(Formatted(exportTimer.data, exportTimer.format), exportTimer.format)
                 ELSE downloadBatchedFiles(exportTimer.data, exportTimer.size.v, exportTimer.format))
  /\ exportTimer' = NoTimer
  /\ UNCHANGED <<batchData, batchSize, batchTyped, exportFormat, exportAlert>>

\* alert() of startExport is dismissed
startExport_AlertOk ==
  /\ exportAlert
  /\ exportAlert' = FALSE
  /\ UNCHANGED <<batchData, batchSize, batchTyped, exportFormat, exportTimer, downloads>>

\* ------------------------------------------------- crawl route: POST handler
PageUrls == {"p1", "p2"}

\* what the sample scrape can return as content
SampleContents ==
  { [matched |-> {}, product |-> FALSE, article |-> FALSE, contact |-> FALSE],
    [matched |-> {1, 2, 3}, product |-> TRUE, article |-> FALSE, contact |-> FALSE],
    [matched |-> {12, 13, 18}, product |-> FALSE, article |-> TRUE, contact |-> FALSE] }

RequestSchemas ==
  { NoSchema, MalformedSchema, MkSchema(<<>>),
    MkSchema(<<Field("title", "string", ""), Field("date", "string", "")>>) }

\* the body of a crawl request; selectedUrls absent is selectedUrls = []
Requests ==
  [ bodyOk : BOOLEAN, url : BOOLEAN, schema : RequestSchemas, autoInfer : BOOLEAN,
    includeRaw : BOOLEAN, selectedUrls : SeqsUpTo(PageUrls, MaxSel), maxAge : {0, 3600000} ]

NoRequest ==
  [ bodyOk |-> TRUE, url |-> FALSE, schema |-> NoSchema, autoInfer |-> FALSE,
    includeRaw |-> FALSE, selectedUrls |-> <<>>, maxAge |-> 0 ]

NoResponse ==
  [ status |-> 0, success |-> FALSE, error |-> "", data |-> <<>>, totalPages |-> 0,
    completed |-> 0, strategy |-> "", creditsUsed |-> 0, inferredSchema |-> NoSchema,
    rawData |-> <<>> ]

NoCrawlResult == [data |-> <<>>, total |-> 0, completed |-> 0, creditsUsed |-> 0]

VARIABLES
  apiKeyOk,        \* process.env.FIRECRAWL_API_KEY is set to a real key
  req,             \* body of the request being handled
  pc,              \* where the handler is suspended: idle, sample, bulk, perUrl, done
  finalSchema,     \* the handler's finalSchema
  fallbackResults, \* the handler's fallbackResults
  crawlResult,     \* the handler's crawlResult
  sampleResult,    \* outcome of the handler's sample scrape: none, success, failure, raised
  response,        \* the NextResponse returned
  calls            \* fetcher calls issued by the handler, in order

routeVars ==
  <<apiKeyOk, req, pc, finalSchema, sampleResult, fallbackResults, crawlResult, response, calls>>

\* NextResponse.json({error}, {status})
ErrorResponse(st, msg) == [NoResponse EXCEPT !.status = st, !.error = msg]

\* scrapeOptions (route.ts 200-211): formats, timeout, maxAge, jsonOptions
scrapeOptions(r, schema) ==
  [ formats |-> IF schema.defined THEN <<"markdown", "json">> ELSE <<"markdown">>,
    timeout |-> 60000, maxAge |-> r.maxAge, jsonSchema |-> Keys(schema) ]

SampleCall == [kind |-> "sample", urls |-> <<>>, options |-> scrapeOptions(NoRequest, NoSchema)]
BatchCall(r, schema) == [kind |-> "batch", urls |-> r.selectedUrls, options |-> scrapeOptions(r, schema)]
\* variant: the per-URL scrape is issued with options of its own
ScrapeCall_OwnOptions(r, schema, u) == [kind |-> "scrape", urls |-> <<u>>, options |-> scrapeOptions(NoRequest, schema)]
ScrapeCall(r, schema, u) == [kind |-> "scrape", urls |-> <<u>>, options |-> scrapeOptions(r, schema)]

\* one page -> one record: the page's json when present, else one value per
\* schema key derived from the markdown (route.ts 302-332)
ExtractRecord(page, schema) ==
  IF page.json THEN [url |-> page.url, from |-> "json", keys |-> <<>>]
  ELSE [url |-> page.url, from |-> "markdown", keys |-> Keys(schema)]

extractedData(cr, schema) == [i \in 1..Len(cr.data) |-> ExtractRecord(cr.data[i], schema)]

\* a || b on numbers
OrElse(a, b) == IF a # 0 THEN a ELSE b

\* variant: the response reports the fetcher's credit figure
SuccessResponse_FetcherCredits(r, cr, schema) ==
  LET data == extractedData(cr, schema) IN
  [ status |-> 200, success |-> TRUE, error |-> "",
    data |-> data,
    totalPages |-> OrElse(cr.total, Len(data)),
    completed |-> OrElse(cr.completed, Len(data)),
    strategy |-> "mapCrawl",
    creditsUsed |-> cr.creditsUsed,
    inferredSchema |-> IF r.autoInfer THEN schema ELSE NoSchema,
    rawData |-> IF r.includeRaw THEN [i \in 1..Len(cr.data) |-> cr.data[i].url] ELSE <<>> ]

\* variant: the strategy value reported depends on the request
SuccessResponse_OtherStrategy(r, cr, schema) ==
  LET data == extractedData(cr, schema) IN
  [ status |-> 200, success |-> TRUE, error |-> "",
    data |-> data,
    totalPages |-> OrElse(cr.total, Len(data)),
    completed |-> OrElse(cr.completed, Len(data)),
    strategy |-> IF r.includeRaw THEN "mapCrawl" ELSE "crawl",
    creditsUsed |-> Len(r.selectedUrls) + 2,
    inferredSchema |-> IF r.autoInfer THEN schema ELSE NoSchema,
    rawData |-> IF r.includeRaw THEN [i \in 1..Len(cr.data) |-> cr.data[i].url] ELSE <<>> ]

\* the success response (route.ts 334-377)
SuccessResponse(r, cr, schema) ==
  LET data == extractedData(cr, schema) IN
  [ status |-> 200, success |-> TRUE, error |-> "",
    data |-> data,
    totalPages |-> OrElse(cr.total, Len(data)),
    completed |-> OrElse(cr.completed, Len(data)),
    strategy |-> "mapCrawl",
    creditsUsed |-> Len(r.selectedUrls) + 2,
    inferredSchema |-> IF r.autoInfer THEN schema ELSE NoSchema,
    rawData |-> IF r.includeRaw THEN [i \in 1..Len(cr.data) |-> cr.data[i].url] ELSE <<>> ]

Respond(resp) ==
  /\ pc' = "done"
  /\ response' = resp

\* route.ts 154-218: from the resolved schema to the bulk call
Continue(r, schema, cs) ==
  /\ finalSchema' = schema
  /\ fallbackResults' = <<>>
  /\ crawlResult' = NoCrawlResult
  /\ IF ~schema.defined
     THEN Respond(ErrorResponse(400, "Schema is required or auto-inference failed")) /\ calls' = cs
     ELSE IF r.selectedUrls = <<>>
     THEN Respond(ErrorResponse(400, "No URLs selected for scraping")) /\ calls' = cs
     ELSE IF ~schema.hasProps
     THEN \* createJsonSchema: Object.entries(undefined) throws, outer catch
          Respond(ErrorResponse(500, "thrown")) /\ calls' = cs
     ELSE /\ pc' = "bulk"
          /\ response' = NoResponse
          /\ calls' = Append(cs, BatchCall(r, schema))

\* route.ts 104-152: the handler runs on the request body to its first await
\* or return
POST_Start ==
  /\ pc = "idle"
  /\ UNCHANGED <<apiKeyOk, req, sampleResult>>
  /\ IF ~req.bodyOk
     THEN \* request.json() throws, outer catch
          /\ Respond(ErrorResponse(500, "thrown"))
          /\ UNCHANGED <<finalSchema, fallbackResults, crawlResult, calls>>
     ELSE IF ~req.url
     THEN /\ Respond(ErrorResponse(400, "URL is required"))
          /\ UNCHANGED <<finalSchema, fallbackResults, crawlResult, calls>>
     ELSE IF ~apiKeyOk
     THEN /\ Respond(ErrorResponse(500, "Firecrawl API key not configured"))
          /\ UNCHANGED <<finalSchema, fallbackResults, crawlResult, calls>>
     ELSE IF req.autoInfer /\ ~req.schema.defined
     THEN /\ pc' = "sample"
          /\ calls' = <<SampleCall>>
          /\ finalSchema' = req.schema
          /\ UNCHANGED <<fallbackResults, crawlResult, response>>
     ELSE Continue(req, req.schema, <<>>)

\* route.ts 141-152: the sample scrape resolves with success:true
POST_SampleOk(content) ==
  /\ pc = "sample"
  /\ sampleResult' = "success"
  /\ Continue(req, inferSchemaFromContent(content), calls)
  /\ UNCHANGED <<apiKeyOk, req>>

\* route.ts 148-151: the sample scrape resolves with success:false
POST_SampleFail ==
  /\ pc = "sample"
  /\ sampleResult' = "failure"
  /\ Continue(req, getDefaultSchema, calls)
  /\ UNCHANGED <<apiKeyOk, req>>

\* route.ts 141, 379-385: the sample scrape rejects; only the outer catch
\* encloses it
POST_SampleRaise ==
  /\ pc = "sample"
  /\ sampleResult' = "raised"
  /\ Respond(ErrorResponse(500, "thrown"))
  /\ UNCHANGED <<apiKeyOk, req, finalSchema, fallbackResults, crawlResult, calls>>

\* the pages a fetcher hands back for the urls at positions ok of the selection
Pages(r, ok, json) ==
  LET idx == FilterSeq([i \in 1..Len(r.selectedUrls) |-> i], ok)
  IN [k \in 1..Len(idx) |-> [url |-> r.selectedUrls[idx[k]], json |-> idx[k] \in json]]

\* variant: total is the number of pages the bulk call returned
POST_BatchOk_TotalReturned(ok, json, credits) ==
  /\ pc = "bulk"
  /\ LET data == Pages(req, ok, json)
         cr == [ data |-> data, total |-> Len(data), completed |-> Len(data),
                 creditsUsed |-> IF credits = -1 THEN Len(data) ELSE credits ]
     IN /\ crawlResult' = cr
        /\ Respond(SuccessResponse(req, cr, finalSchema))
  /\ UNCHANGED <<apiKeyOk, req, finalSchema, sampleResult, fallbackResults, calls>>

\* route.ts 218-233: the bulk call resolves with success:true; credits = -1
\* stands for a result without creditsUsed
POST_BatchOk(ok, json, credits) ==
  /\ pc = "bulk"
  /\ LET data == Pages(req, ok, json)
         cr == [ data |-> data, total |-> Len(req.selectedUrls), completed |-> Len(data),
                 creditsUsed |-> IF credits = -1 THEN Len(data) ELSE credits ]
     IN /\ crawlResult' = cr
        /\ Respond(SuccessResponse(req, cr, finalSchema))
  /\ UNCHANGED <<apiKeyOk, req, finalSchema, sampleResult, fallbackResults, calls>>

\* route.ts 221-223, 236-254: the bulk call rejects or reports success:false;
\* the catch starts the per-URL loop with the first scrapeUrl call
POST_BatchFail ==
  /\ pc = "bulk"
  /\ pc' = "perUrl"
  /\ fallbackResults' = <<>>
  /\ calls' = Append(calls, ScrapeCall(req, finalSchema, req.selectedUrls[1]))
  /\ UNCHANGED <<apiKeyOk, req, finalSchema, sampleResult, crawlResult, response>>

ScrapeOutcomes == {"json", "markdown", "wrapped", "fail", "raise"}

\* route.ts 254-263: what one scrapeUrl call pushes on fallbackResults
FallbackResult(u, outcome) ==
  [ success |-> outcome \in {"json", "markdown", "wrapped"}, url |-> u,
    json |-> outcome \in {"json", "wrapped"}, wrapped |-> outcome = "wrapped",
    caught |-> outcome = "raise" ]

\* variant: completed counts every fallback result, failed ones included
FallbackCrawlResult_CountAll(r, results) ==
  LET okIdx == FilterSeq([i \in 1..Len(results) |-> i],
                         {i \in 1..Len(results) : results[i].success})
  IN [ data |-> [k \in 1..Len(okIdx) |->
                   [url |-> results[okIdx[k]].url, json |-> results[okIdx[k]].json]],
       total |-> Len(r.selectedUrls),
       completed |-> Len(results),
       creditsUsed |-> Len(okIdx) ]

\* route.ts 266-294: fallbackResults -> crawlResult
FallbackCrawlResult(r, results) ==
  LET okIdx == FilterSeq([i \in 1..Len(results) |-> i],
                         {i \in 1..Len(results) : results[i].success})
  IN [ data |-> [k \in 1..Len(okIdx) |->
                   [url |-> results[okIdx[k]].url, json |-> results[okIdx[k]].json]],
       total |-> Len(r.selectedUrls),
       completed |-> Len(okIdx),
       creditsUsed |-> Len(okIdx) ]

\* variant: the per-URL scrape is not wrapped in its own try/catch, so a
\* rejected scrape reaches the outer catch
POST_ScrapeReturn_NoCatch(outcome) ==
  /\ pc = "perUrl"
  /\ IF outcome = "raise"
     THEN /\ Respond(ErrorResponse(500, "thrown"))
          /\ UNCHANGED <<fallbackResults, crawlResult, calls>>
     ELSE LET i == Len(fallbackResults) + 1
              results == Append(fallbackResults, FallbackResult(req.selectedUrls[i], outcome))
          IN /\ fallbackResults' = results
             /\ IF i < Len(req.selectedUrls)
                THEN /\ calls' = Append(calls, ScrapeCall(req, finalSchema, req.selectedUrls[i + 1]))
                     /\ UNCHANGED <<pc, crawlResult, response>>
                ELSE /\ crawlResult' = FallbackCrawlResult(req, results)
                     /\ Respond(SuccessResponse(req, FallbackCrawlResult(req, results), finalSchema))
                     /\ UNCHANGED calls
  /\ UNCHANGED <<apiKeyOk, req, finalSchema, sampleResult>>

\* route.ts 252-296: one per-URL scrape resolves or rejects; the loop goes on
\* to the next url, or ends and the response is built
POST_ScrapeReturn(outcome) ==
  /\ pc = "perUrl"
  /\ LET i == Len(fallbackResults) + 1
         results == Append(fallbackResults, FallbackResult(req.selectedUrls[i], outcome))
     IN /\ fallbackResults' = results
        /\ IF i < Len(req.selectedUrls)
           THEN /\ calls' = Append(calls, ScrapeCall(req, finalSchema, req.selectedUrls[i + 1]))
                /\ UNCHANGED <<pc, crawlResult, response>>
           ELSE /\ crawlResult' = FallbackCrawlResult(req, results)
                /\ Respond(SuccessResponse(req, FallbackCrawlResult(req, results), finalSchema))
                /\ UNCHANGED calls
  /\ UNCHANGED <<apiKeyOk, req, finalSchema, sampleResult>>

RouteInit ==
  /\ apiKeyOk \in BOOLEAN
  /\ req \in Requests
  /\ pc = "idle"
  /\ finalSchema = NoSchema
  /\ sampleResult = "none"
  /\ fallbackResults = <<>>
  /\ crawlResult = NoCrawlResult
  /\ response = NoResponse
  /\ calls = <<>>

\* -------------------------------------------------- crawl route: GET handler
\* the url parameter of a schema-inference request: absent, or a scheme
\* (possibly none) and the rest
GetUrls ==
  {[present |-> FALSE, scheme |-> "", rest |-> ""]}
  \cup [present : {TRUE}, scheme : {"", "http://", "https://"}, rest : {"a.com", "a b"}]

\* new URL(url) does not throw
ParsesAsUrl(u) == u.rest = "a.com"

\* route.ts 18-21: 'https://' is put before a url without protocol
withProtocol(u) == IF u.scheme = "" THEN [u EXCEPT !.scheme = "https://"] ELSE u

\* what the text of an error can include, of the texts the handler looks for
ErrorMarks == {"502", "Bad Gateway", "timeout", "API key"}

\* the error texts: each the set of marks it includes; NonError stands for a
\* thrown value that is no Error
ErrorTexts == SUBSET ErrorMarks

NonError == {"not an Error"}

Message(text, detail) == [text |-> text, detail |-> detail]

NoMessage == Message("", {})

NoGetResponse ==
  [ status |-> 0, success |-> FALSE, error |-> NoMessage, schema |-> NoSchema,
    fallbackSchema |-> NoSchema ]

VARIABLES
  getUrl,       \* the url parameter of the GET request
  getKeyOk,     \* FIRECRAWL_API_KEY is set to a real key
  getPc,        \* where the GET handler is: idle, sample, done
  getSample,    \* outcome of its sample scrape: kind and error text
  getCalls,     \* the scrapeUrl calls it issued: the urls
  getResponse   \* the NextResponse returned

getVars == <<getUrl, getKeyOk, getPc, getSample, getCalls, getResponse>>

NoSample == [kind |-> "none", text |-> {}]

GetIdle ==
  /\ getUrl = [present |-> FALSE, scheme |-> "", rest |-> ""]
  /\ getKeyOk = TRUE
  /\ getPc = "idle"
  /\ getSample = NoSample
  /\ getCalls = <<>>
  /\ getResponse = NoGetResponse

GetInit ==
  /\ getUrl \in GetUrls
  /\ getKeyOk \in BOOLEAN
  /\ getPc = "idle"
  /\ getSample = NoSample
  /\ getCalls = <<>>
  /\ getResponse = NoGetResponse

GetRespond(st, msg, fallback) ==
  /\ getPc' = "done"
  /\ getResponse' = [NoGetResponse EXCEPT !.status = st, !.error = msg, !.fallbackSchema = fallback]

\* route.ts 6-53: from the request to the sample scrape
GET_Start ==
  /\ getPc = "idle"
  /\ UNCHANGED <<getUrl, getKeyOk, getSample>>
  /\ IF ~getUrl.present
     THEN GetRespond(400, Message("URL is required", {}), NoSchema) /\ UNCHANGED getCalls
     ELSE IF ~ParsesAsUrl(withProtocol(getUrl))
     THEN GetRespond(400, Message("Invalid URL format", {}), NoSchema) /\ UNCHANGED getCalls
     ELSE IF ~getKeyOk
     THEN GetRespond(500, Message("Firecrawl API key not configured", {}), NoSchema)
          /\ UNCHANGED getCalls
     ELSE /\ getPc' = "sample"
          /\ getCalls' = Append(getCalls, withProtocol(getUrl))
          /\ UNCHANGED getResponse

\* route.ts 71-78: the sample scrape resolves with success:true
GET_SampleOk(content) ==
  /\ getPc = "sample"
  /\ getSample' = [kind |-> "success", text |-> {}]
  /\ getPc' = "done"
  /\ getResponse' = [NoGetResponse EXCEPT !.status = 200, !.success = TRUE,
                                          !.schema = inferSchemaFromContent(content)]
  /\ UNCHANGED <<getUrl, getKeyOk, getCalls>>

\* route.ts 55-69: the sample scrape resolves with success:false and the
\* error text err
GET_SampleFail(err) ==
  /\ getPc = "sample"
  /\ getSample' = [kind |-> "failure", text |-> err]
  /\ IF "502" \in err \/ "Bad Gateway" \in err
     THEN GetRespond(503, Message("The website is temporarily unavailable. Please try again later or try a different URL.", {}),
                     getDefaultSchema)
     ELSE GetRespond(500, Message("Failed to analyze website: ", err), getDefaultSchema)
  /\ UNCHANGED <<getUrl, getKeyOk, getCalls>>

\* route.ts 48, 80-101: the sample scrape rejects with an Error of the text
\* err, or with a value that is no Error
GET_SampleRaise(err) ==
  /\ getPc = "sample"
  /\ getSample' = [kind |-> "raised", text |-> err]
  /\ IF err = NonError
     THEN GetRespond(500, Message("Failed to analyze website", {}), getDefaultSchema)
     ELSE IF "502" \in err
     THEN GetRespond(500, Message("The website is temporarily unavailable. Please try again later.", {}),
                     getDefaultSchema)
     ELSE IF "timeout" \in err
     THEN GetRespond(500, Message("The website took too long to respond. Please try again.", {}),
                     getDefaultSchema)
     ELSE IF "API key" \in err
     THEN GetRespond(500, Message("Invalid API key. Please check your Firecrawl API key.", {}),
                     getDefaultSchema)
     ELSE GetRespond(500, Message("", err), getDefaultSchema)
  /\ UNCHANGED <<getUrl, getKeyOk, getCalls>>

\* --------------------------------------------------------------- URLs
\* A URL string is described by what new URL() reads from it. A path segment
\* is a sequence of characters, so that String.prototype.startsWith on
\* pathnames is a prefix test on characters.
MkUrl(w, h, sg, q) == [valid |-> TRUE, www |-> w, host |-> h, segs |-> sg, query |-> q]

\* a string new URL() rejects
BadUrl == [valid |-> FALSE, www |-> FALSE, host |-> "", segs |-> <<>>, query |-> ""]

SegB == <<"b">>
SegBx == <<"b", "x">>
SegP == <<"p">>
\* a segment naming a member every object literal inherits from
\* Object.prototype (children[part] is truthy before any assignment)
SegCtor == <<"constructor">>

InheritedNames == {SegCtor}

\* the URLs the external map capability can hand back
Universe ==
  { MkUrl(FALSE, "a.com", <<>>, ""),
    MkUrl(FALSE, "a.com", <<SegB>>, ""),
    MkUrl(TRUE, "a.com", <<SegB>>, ""),
    MkUrl(FALSE, "a.com", <<SegB>>, "?q"),
    MkUrl(FALSE, "a.com", <<SegB, SegP>>, ""),
    MkUrl(FALSE, "a.com", <<SegBx>>, ""),
    MkUrl(FALSE, "c.com", <<SegB, SegP>>, ""),
    MkUrl(FALSE, "a.com", <<SegB, SegCtor>>, ""),
    BadUrl }

RECURSIVE Pathname(_)
\* urlObj.pathname: "/" for no segments, else "/" + segment for each segment
Pathname(sg) ==
  IF sg = <<>> THEN <<"/">>
  ELSE IF Len(sg) = 1 THEN <<"/">> \o sg[1]
  ELSE <<"/">> \o sg[1] \o Pathname(Tail(sg))

\* String.prototype.startsWith
startsWith(s, t) == Len(t) <= Len(s) /\ SubSeq(s, 1, Len(t)) = t

\* `${urlObj.origin}${urlObj.pathname}`: the URL without its query string
BaseUrl(u) == [u EXCEPT !.query = ""]

\* ------------------------------------------------------------ buildUrlTree
\* A tree is a function from node keys to nodes. The key of a node is its
\* domain key (host without www.) and the path segments leading to it; the
\* children of a node are the keys one segment longer.
NodeKey(h, sg) == [host |-> h, segs |-> sg]

\* node.path as a URL: domainKey + "/" + parts
PathUrl(k) == MkUrl(FALSE, k.host, k.segs, "")

EnsureNode(tree, k) ==
  IF k \in DOMAIN tree THEN tree ELSE tree @@ (k :> [urls |-> <<>>, count |-> 0])

RECURSIVE InsertParts(_, _, _)
\* pathParts.forEach (part_000 468-485) from part i on. A part naming an
\* inherited member is found present without being a node: reading its urls
\* or children throws, the catch at 487 drops the URL and the nodes created
\* so far stay.
InsertParts(tree, u, i) ==
  IF i > Len(u.segs) THEN tree
  ELSE IF u.segs[i] \in InheritedNames THEN tree
  ELSE LET k == NodeKey(u.host, SubSeq(u.segs, 1, i))
           t1 == EnsureNode(tree, k)
           t2 == IF i = Len(u.segs)
                 THEN [t1 EXCEPT ![k].urls = Append(@, u)]
                 ELSE t1
       IN InsertParts(t2, u, i + 1)

\* part_000 430-490 for one url: invalid URLs are skipped, a root path goes to
\* the domain node's urls, any other path descends through the children
InsertUrl(tree, u) ==
  IF ~u.valid THEN tree
  ELSE LET root == NodeKey(u.host, <<>>)
           t0 == EnsureNode(tree, root)
       IN IF u.segs = <<>>
          THEN [t0 EXCEPT ![root].urls = Append(@, u)]
          ELSE InsertParts(t0, u, 1)

RECURSIVE InsertAll(_, _)
InsertAll(tree, urls) ==
  IF urls = <<>> THEN tree ELSE InsertAll(InsertUrl(tree, Head(urls)), Tail(urls))

Children(tree, k) ==
  {c \in DOMAIN tree : /\ c.host = k.host
                       /\ Len(c.segs) = Len(k.segs) + 1
                       /\ SubSeq(c.segs, 1, Len(k.segs)) = k.segs}

RECURSIVE SumOver(_, _, _)
RECURSIVE updateCounts(_, _)

SumOver(tree, ks, acc) ==
  IF ks = {} THEN acc
  ELSE LET c == CHOOSE x \in ks : TRUE
       IN SumOver(tree, ks \ {c}, acc + updateCounts(tree, c))

\* variant: a node counts only the URLs ending at it
updateCounts_OwnOnly(tree, k) == Len(tree[k].urls)

\* part_000 498-505: node.count = node.urls.length + sum of the children's
\* recomputed counts
updateCounts(tree, k) == SumOver(tree, Children(tree, k), Len(tree[k].urls))

\* part_000 424-510
buildUrlTree(urls) ==
  LET t == InsertAll(<<>>, urls)
  IN [k \in DOMAIN t |-> [urls |-> t[k].urls, count |-> updateCounts(t, k)]]

Roots(tree) == {k \in DOMAIN tree : k.segs = <<>>}

\* getNodeUrls (part_000 186-192): the urls of a node and of its descendants
RECURSIVE getNodeUrls(_, _)
RECURSIVE ConcatOver(_, _, _)

ConcatOver(tree, ks, acc) ==
  IF ks = {} THEN acc
  ELSE LET c == CHOOSE x \in ks : TRUE
       IN ConcatOver(tree, ks \ {c}, acc \o getNodeUrls(tree, c))

getNodeUrls(tree, k) == ConcatOver(tree, Children(tree, k), tree[k].urls)

\* ------------------------------------------------ tree builder on its own
VARIABLES
  treeUrls,   \* the url list handed to buildUrlTree
  treeBuilt,  \* buildUrlTree has returned
  tree        \* the tree it returned

treeVars == <<treeUrls, treeBuilt, tree>>

\* url lists as the page holds them: no string occurs twice
DistinctSeqs(S, n) == {q \in SeqsUpTo(S, n) : \A i, j \in 1..Len(q) : q[i] = q[j] => i = j}

TreeIdle == treeUrls = <<>> /\ treeBuilt = FALSE /\ tree = <<>>

TreeInit == treeUrls \in DistinctSeqs(Universe, MaxTreeUrls) /\ treeBuilt = FALSE /\ tree = <<>>

BuildTree ==
  /\ ~treeBuilt
  /\ tree' = buildUrlTree(treeUrls)
  /\ treeBuilt' = TRUE
  /\ UNCHANGED treeUrls

\* ------------------------------------------------- the migrator page (UI)
\* the URLs the map capability returns to the page
MapUniverse ==
  { MkUrl(TRUE, "a.com", <<SegB>>, "?q"),
    MkUrl(FALSE, "a.com", <<SegBx>>, ""),
    MkUrl(FALSE, "c.com", <<SegB>>, ""),
    BadUrl }

MapResponses == SeqsUpTo(MapUniverse, MaxResp)

NoCrawl == [active |-> FALSE, selectedUrls |-> <<>>]

VARIABLES
  currentStep,     \* useState<Step>(1)
  sourceUrl,       \* useState('https://firecrawl.dev'); the user leaves the input filled
  loading,         \* useState(false)
  crawlData,       \* useState([])
  mapResults,      \* useState([])
  selectedUrls,    \* useState([])
  isMapping,       \* useState(false)
  mappingNodes,    \* useState(new Set()): paths with a map request in flight
  expandedNodes,   \* useState(new Set())
  analyzeTimers,   \* pending setTimeout callbacks of analyzeWebsite
  analyzeRequests, \* /api/map requests of analyzeWebsite in flight
  crawlRequest,    \* the /api/crawl request of startCrawl in flight
  alert            \* text of the alert() dialog on screen, "" when there is none

uiVars ==
  <<currentStep, sourceUrl, loading, crawlData, mapResults, selectedUrls, isMapping,
    mappingNodes, expandedNodes, analyzeTimers, analyzeRequests, crawlRequest, alert>>

RECURSIVE Dedup(_, _)
\* [...new Set(list)]: first occurrences, in order
Dedup(s, seen) ==
  IF s = <<>> THEN <<>>
  ELSE IF Head(s) \in seen THEN Dedup(Tail(s), seen)
  ELSE <<Head(s)>> \o Dedup(Tail(s), seen \cup {Head(s)})

\* the tree the page renders (part_000 1694)
RenderedTree == buildUrlTree(mapResults)

\* the step-2 panel with the page selection is on screen (part_000 1469, 1619)
SelectionShown == currentStep = 2 /\ ~loading /\ mapResults # <<>>

\* part_000 512-522: analyzeWebsite up to setTimeout
analyzeWebsite ==
  /\ alert = ""
  /\ currentStep = 1
  /\ IF sourceUrl = ""
     THEN alert' = "Please enter a URL" /\ UNCHANGED analyzeTimers
     ELSE /\ analyzeTimers + analyzeRequests < MaxAnalyze
          /\ analyzeTimers' = analyzeTimers + 1
          /\ UNCHANGED alert
  /\ UNCHANGED <<currentStep, sourceUrl, loading, crawlData, mapResults, selectedUrls, isMapping,
                 mappingNodes, expandedNodes, analyzeRequests, crawlRequest>>

\* part_000 522-540: the timeout callback up to the fetch of /api/map
analyzeWebsite_Timeout ==
  /\ alert = ""
  /\ analyzeTimers > 0
  /\ analyzeTimers' = analyzeTimers - 1
  /\ currentStep' = 2
  /\ isMapping' = TRUE
  /\ analyzeRequests' = analyzeRequests + 1
  /\ UNCHANGED <<sourceUrl, loading, crawlData, mapResults, selectedUrls, mappingNodes,
                 expandedNodes, crawlRequest, alert>>

\* part_000 562-572: base URLs of the parsable entries, other entries as they
\* are, without repetitions
uniqueUrls(urls) ==
  Dedup([i \in 1..Len(urls) |-> IF urls[i].valid THEN BaseUrl(urls[i]) ELSE urls[i]], {})

\* variant: a site discovery leaves the selection as it is
analyzeWebsite_Mapped_KeepSelection(urls) ==
  /\ alert = ""
  /\ analyzeRequests > 0
  /\ analyzeRequests' = analyzeRequests - 1
  /\ mapResults' = uniqueUrls(urls)
  /\ expandedNodes' = {PathUrl(k) : k \in Roots(buildUrlTree(uniqueUrls(urls)))}
  /\ isMapping' = FALSE
  /\ UNCHANGED <<currentStep, sourceUrl, loading, crawlData, selectedUrls, mappingNodes,
                 analyzeTimers, crawlRequest, alert>>

\* part_000 542-586: the map request resolves with success and a url list
analyzeWebsite_Mapped(urls) ==
  /\ alert = ""
  /\ analyzeRequests > 0
  /\ analyzeRequests' = analyzeRequests - 1
  /\ mapResults' = uniqueUrls(urls)
  /\ selectedUrls' = <<>>
  /\ expandedNodes' = {PathUrl(k) : k \in Roots(buildUrlTree(uniqueUrls(urls)))}
  /\ isMapping' = FALSE
  /\ UNCHANGED <<currentStep, sourceUrl, loading, crawlData, mappingNodes, analyzeTimers,
                 crawlRequest, alert>>

\* part_000 587-594: the map request fails (success:false, no list, rejected)
analyzeWebsite_Failed ==
  /\ alert = ""
  /\ analyzeRequests > 0
  /\ analyzeRequests' = analyzeRequests - 1
  /\ alert' = "Failed to map website"
  /\ isMapping' = FALSE
  /\ UNCHANGED <<currentStep, sourceUrl, loading, crawlData, mapResults, selectedUrls,
                 mappingNodes, expandedNodes, analyzeTimers, crawlRequest>>

\* the paths of the tree nodes above the node at path, the domain node
\* included (part_000 452, 466-475)
AncestorPaths(path) ==
  {MkUrl(FALSE, path.host, SubSeq(path.segs, 1, i), "") : i \in 0..(Len(path.segs) - 1)}

\* renderNode (part_000 275-283, 290): the children of a node are rendered
\* only while the node is expanded, domain nodes are always rendered
Visible(k) == AncestorPaths(PathUrl(k)) \subseteq expandedNodes

\* part_000 226-234, 330-340: the arrow of a rendered node that has children
toggleNode(k) ==
  /\ alert = ""
  /\ SelectionShown
  /\ k \in DOMAIN RenderedTree
  /\ Visible(k)
  /\ Children(RenderedTree, k) # {}
  /\ expandedNodes' = IF PathUrl(k) \in expandedNodes
                      THEN expandedNodes \ {PathUrl(k)}
                      ELSE expandedNodes \cup {PathUrl(k)}
  /\ UNCHANGED <<currentStep, sourceUrl, loading, crawlData, mapResults, selectedUrls, isMapping,
                 mappingNodes, analyzeTimers, analyzeRequests, crawlRequest, alert>>

\* a node is mapped only while fewer than n map requests are in flight and
\* the working set is shorter than MaxUrls
MapBound(n) == Cardinality(mappingNodes) < n /\ Len(mapResults) < MaxUrls

\* part_000 343-357, 261-272: the Map button of a rendered node up to the
\* fetch
handleMapNode(k) ==
  /\ alert = ""
  /\ SelectionShown
  /\ k \in DOMAIN RenderedTree
  /\ Visible(k)
  /\ PathUrl(k) \notin mappingNodes
  /\ mappingNodes' = mappingNodes \cup {PathUrl(k)}
  /\ UNCHANGED <<currentStep, sourceUrl, loading, crawlData, mapResults, selectedUrls, isMapping,
                 expandedNodes, analyzeTimers, analyzeRequests, crawlRequest, alert>>

\* part_000 363-372: urls whose pathname starts with the mapped pathname
pathUrls(urls, path) ==
  FilterSeq(urls, {u \in Range(urls) :
                     u.valid /\ startsWith(Pathname(u.segs), Pathname(path.segs))})

\* part_000 394-405: nodePath.split('/').filter(Boolean) yields the protocol,
\* the host and the segments; the first part is prefixed with "https://", so
\* the paths collected are "https://https:", "https://https:/host", ...
expandParents(path) ==
  LET parts == <<<<"https:">>, <<path.host>>>> \o path.segs
  IN {MkUrl(FALSE, "https:", SubSeq(parts, 2, i), "") : i \in 1..Len(parts)}

IsLeaf(path) ==
  LET k == NodeKey(path.host, path.segs)
  IN k \in DOMAIN RenderedTree /\ Children(RenderedTree, k) = {}

\* variant: the filtered list is used even when it is empty
handleMapNode_Mapped_NoSelf(path, urls) ==
  /\ alert = ""
  /\ path \in mappingNodes
  /\ LET urlsToAdd == pathUrls(urls, path)
     IN /\ mapResults' = Dedup(mapResults \o urlsToAdd, {})
        /\ selectedUrls' = Dedup(selectedUrls \o urlsToAdd, {})
  /\ expandedNodes' = expandedNodes \cup {path} \cup expandParents(path)
  /\ mappingNodes' = mappingNodes \ {path}
  /\ UNCHANGED <<currentStep, sourceUrl, loading, crawlData, isMapping, analyzeTimers,
                 analyzeRequests, crawlRequest, alert>>

\* variant: the urls found replace the working set and the selection instead
\* of being merged into them
handleMapNode_Mapped_Replace(path, urls) ==
  /\ alert = ""
  /\ path \in mappingNodes
  /\ LET found == pathUrls(urls, path)
         urlsToAdd == IF Len(found) > 0 THEN found ELSE <<path>>
     IN /\ mapResults' = Dedup(urlsToAdd, {})
        /\ selectedUrls' = Dedup(urlsToAdd, {})
  /\ expandedNodes' = expandedNodes \cup {path} \cup expandParents(path)
  /\ mappingNodes' = mappingNodes \ {path}
  /\ UNCHANGED <<currentStep, sourceUrl, loading, crawlData, isMapping, analyzeTimers,
                 analyzeRequests, crawlRequest, alert>>

\* part_000 359-407, 413-420: the map request of a node resolves with success
\* and a url list
handleMapNode_Mapped(path, urls) ==
  /\ alert = ""
  /\ path \in mappingNodes
  /\ LET found == pathUrls(urls, path)
         urlsToAdd == IF Len(found) > 0 THEN found ELSE <<path>>
     IN /\ mapResults' = Dedup(mapResults \o urlsToAdd, {})
        /\ selectedUrls' = Dedup(selectedUrls \o urlsToAdd, {})
  /\ expandedNodes' = expandedNodes \cup {path} \cup expandParents(path)
  /\ mappingNodes' = mappingNodes \ {path}
  /\ UNCHANGED <<currentStep, sourceUrl, loading, crawlData, isMapping, analyzeTimers,
                 analyzeRequests, crawlRequest, alert>>

\* part_000 408-420: the map request of a node fails (success:false, no list,
\* rejected fetch, unreadable body): the error is alerted, nothing is added
handleMapNode_Failed(path) ==
  /\ alert = ""
  /\ path \in mappingNodes
  /\ alert' = "Failed to map path"
  /\ mappingNodes' = mappingNodes \ {path}
  /\ UNCHANGED <<currentStep, sourceUrl, loading, crawlData, mapResults, selectedUrls, isMapping,
                 expandedNodes, analyzeTimers, analyzeRequests, crawlRequest>>

\* variant: the test for 'full' comes first
isNodeSelected_FullFirst(k) ==
  LET nodeUrls == getNodeUrls(RenderedTree, k)
      selectedCount == Cardinality({i \in 1..Len(nodeUrls) : nodeUrls[i] \in Range(selectedUrls)})
  IN IF selectedCount = Len(nodeUrls) THEN "full"
     ELSE IF selectedCount = 0 THEN "none"
     ELSE "partial"

\* isNodeSelected (part_000 194-201)
isNodeSelected(k) ==
  LET nodeUrls == getNodeUrls(RenderedTree, k)
      selectedCount == Cardinality({i \in 1..Len(nodeUrls) : nodeUrls[i] \in Range(selectedUrls)})
  IN IF selectedCount = 0 THEN "none"
     ELSE IF selectedCount = Len(nodeUrls) THEN "full"
     ELSE "partial"

\* part_000 203-211: the selection toggleNodeSelection hands to
\* onSelectionChange
toggledSelection(k) ==
  LET nodeUrls == getNodeUrls(RenderedTree, k)
  IN IF isNodeSelected(k) = "full"
     THEN FilterSeq(selectedUrls, Range(selectedUrls) \ Range(nodeUrls))
     ELSE Dedup(selectedUrls \o nodeUrls, {})

\* part_000 203-212, 245: the checkbox of a rendered tree node
toggleNodeSelection(k) ==
  /\ alert = ""
  /\ SelectionShown
  /\ k \in DOMAIN RenderedTree
  /\ Visible(k)
  /\ selectedUrls' = toggledSelection(k)
  /\ UNCHANGED <<currentStep, sourceUrl, loading, crawlData, mapResults, isMapping, mappingNodes,
                 expandedNodes, analyzeTimers, analyzeRequests, crawlRequest, alert>>

\* part_000 1656: Select All
SelectAll ==
  /\ alert = ""
  /\ SelectionShown
  /\ selectedUrls' = mapResults
  /\ UNCHANGED <<currentStep, sourceUrl, loading, crawlData, mapResults, isMapping, mappingNodes,
                 expandedNodes, analyzeTimers, analyzeRequests, crawlRequest, alert>>

\* part_000 1663: Clear All
ClearAll ==
  /\ alert = ""
  /\ SelectionShown
  /\ selectedUrls' = <<>>
  /\ UNCHANGED <<currentStep, sourceUrl, loading, crawlData, mapResults, isMapping, mappingNodes,
                 expandedNodes, analyzeTimers, analyzeRequests, crawlRequest, alert>>

\* part_000 1676-1685: the checkbox of a url in the list view
ListCheckbox(i) ==
  /\ alert = ""
  /\ SelectionShown
  /\ i \in 1..Len(mapResults)
  /\ selectedUrls' = IF mapResults[i] \in Range(selectedUrls)
                     THEN FilterSeq(selectedUrls, Range(selectedUrls) \ {mapResults[i]})
                     ELSE Append(selectedUrls, mapResults[i])
  /\ UNCHANGED <<currentStep, sourceUrl, loading, crawlData, mapResults, isMapping, mappingNodes,
                 expandedNodes, analyzeTimers, analyzeRequests, crawlRequest, alert>>

\* part_000 1794: Back
Back ==
  /\ alert = ""
  /\ currentStep = 2 /\ ~loading
  /\ currentStep' = 1
  /\ UNCHANGED <<sourceUrl, loading, crawlData, mapResults, selectedUrls, isMapping, mappingNodes,
                 expandedNodes, analyzeTimers, analyzeRequests, crawlRequest, alert>>

\* part_000 717-767, 1800-1806: Start Scraping, up to the fetch of /api/crawl.
\* The button is disabled without a selection; the schema fields keep the
\* names they have after construction (title, date).
startCrawl ==
  /\ alert = ""
  /\ currentStep = 2 /\ ~loading
  /\ selectedUrls # <<>>
  /\ IF sourceUrl = ""
     THEN alert' = "Please enter a URL" /\ UNCHANGED <<loading, crawlRequest>>
     ELSE /\ loading' = TRUE
          /\ crawlRequest' = [active |-> TRUE, selectedUrls |-> selectedUrls]
          /\ UNCHANGED alert
  /\ UNCHANGED <<currentStep, sourceUrl, crawlData, mapResults, selectedUrls, isMapping,
                 mappingNodes, expandedNodes, analyzeTimers, analyzeRequests>>

\* part_000 769-779: the crawl response arrives with success:true; data holds
\* one record per page the route extracted
startCrawl_Success(ok) ==
  /\ alert = ""
  /\ crawlRequest.active
  /\ crawlData' = FilterSeq(crawlRequest.selectedUrls,
                            {crawlRequest.selectedUrls[i] : i \in ok})
  /\ loading' = FALSE
  /\ currentStep' = 3
  /\ crawlRequest' = NoCrawl
  /\ UNCHANGED <<sourceUrl, mapResults, selectedUrls, isMapping, mappingNodes, expandedNodes,
                 analyzeTimers, analyzeRequests, alert>>

\* part_000 780-793: the crawl response carries an error, or the fetch rejects
startCrawl_Failed ==
  /\ alert = ""
  /\ crawlRequest.active
  /\ loading' = FALSE
  /\ alert' = "Failed to crawl website"
  /\ crawlRequest' = NoCrawl
  /\ UNCHANGED <<currentStep, sourceUrl, crawlData, mapResults, selectedUrls, isMapping,
                 mappingNodes, expandedNodes, analyzeTimers, analyzeRequests>>

\* variant: the abort handler keeps what the crawl had produced so far and
\* shows the results
startCrawl_Aborted_Partial ==
  /\ alert = ""
  /\ crawlRequest.active
  /\ crawlData' = SubSeq(crawlRequest.selectedUrls, 1, 1)
  /\ loading' = FALSE
  /\ currentStep' = 3
  /\ alert' = "Crawl is taking longer than expected"
  /\ crawlRequest' = NoCrawl
  /\ UNCHANGED <<sourceUrl, mapResults, selectedUrls, isMapping, mappingNodes, expandedNodes,
                 analyzeTimers, analyzeRequests>>

\* part_000 749-750, 783-789: the 3 minute timer aborts the fetch while it is
\* pending; the AbortError is caught
startCrawl_Aborted ==
  /\ alert = ""
  /\ crawlRequest.active
  /\ loading' = FALSE
  /\ alert' = "Crawl is taking longer than expected"
  /\ crawlRequest' = NoCrawl
  /\ UNCHANGED <<currentStep, sourceUrl, crawlData, mapResults, selectedUrls, isMapping,
                 mappingNodes, expandedNodes, analyzeTimers, analyzeRequests>>

\* part_000 1877-1893: Start New Export
StartNewExport ==
  /\ alert = ""
  /\ currentStep = 3
  /\ sourceUrl' = "https://firecrawl.dev"
  /\ crawlData' = <<>>
  /\ mapResults' = <<>>
  /\ selectedUrls' = <<>>
  /\ currentStep' = 1
  /\ UNCHANGED <<loading, isMapping, mappingNodes, expandedNodes, analyzeTimers, analyzeRequests,
                 crawlRequest, alert>>

\* alert() blocks the page until the dialog is dismissed
DismissAlert ==
  /\ alert # ""
  /\ alert' = ""
  /\ UNCHANGED <<currentStep, sourceUrl, loading, crawlData, mapResults, selectedUrls, isMapping,
                 mappingNodes, expandedNodes, analyzeTimers, analyzeRequests, crawlRequest>>

UIInit ==
  /\ currentStep = 1
  /\ sourceUrl = "https://firecrawl.dev"
  /\ loading = FALSE
  /\ crawlData = <<>>
  /\ mapResults = <<>>
  /\ selectedUrls = <<>>
  /\ isMapping = FALSE
  /\ mappingNodes = {}
  /\ expandedNodes = {}
  /\ analyzeTimers = 0
  /\ analyzeRequests = 0
  /\ crawlRequest = NoCrawl
  /\ alert = ""

NodeKeys == DOMAIN RenderedTree

\* ---------------------------------------------------------- specifications
\* the functions and handlers besides the crawl and the page workflow, each
\* run on its own
fnVars == <<inferVars, textVars, csvVars, getVars, batchVars>>

FnIdle == InferIdle /\ TextIdle /\ CsvIdle /\ GetIdle /\ BatchIdle

vars == <<routeVars, treeVars, uiVars, fnVars>>

RouteIdle ==
  /\ apiKeyOk = TRUE
  /\ req = NoRequest
  /\ pc = "idle"
  /\ finalSchema = NoSchema
  /\ sampleResult = "none"
  /\ fallbackResults = <<>>
  /\ crawlResult = NoCrawlResult
  /\ response = NoResponse
  /\ calls = <<>>

\* the crawl route handling one request
Init == RouteInit /\ TreeIdle /\ UIInit /\ FnIdle

Next ==
  \/ (POST_Start /\ UNCHANGED <<treeVars, uiVars, fnVars>>)
  \/ \E c \in SampleContents : (POST_SampleOk(c) /\ UNCHANGED <<treeVars, uiVars, fnVars>>)
  \/ (POST_SampleFail /\ UNCHANGED <<treeVars, uiVars, fnVars>>)
  \/ (POST_SampleRaise /\ UNCHANGED <<treeVars, uiVars, fnVars>>)
  \/ \E ok \in SUBSET (1..Len(req.selectedUrls)) : \E json \in SUBSET ok : \E credits \in -1..MaxCredits : (POST_BatchOk(ok, json, credits) /\ UNCHANGED <<treeVars, uiVars, fnVars>>)
  \/ (POST_BatchFail /\ UNCHANGED <<treeVars, uiVars, fnVars>>)
  \/ \E o \in ScrapeOutcomes : (POST_ScrapeReturn(o) /\ UNCHANGED <<treeVars, uiVars, fnVars>>)

Spec == Init /\ [][Next]_vars

\* the tree builder applied to a url list
InitTree == RouteIdle /\ TreeInit /\ UIInit /\ FnIdle

NextTree == BuildTree /\ UNCHANGED <<routeVars, uiVars, fnVars>>

SpecTree == InitTree /\ [][NextTree]_vars

\* the migrator page
InitUI == RouteIdle /\ TreeIdle /\ UIInit /\ FnIdle

NextUI ==
  \/ (analyzeWebsite /\ UNCHANGED <<routeVars, treeVars, fnVars>>)
  \/ (analyzeWebsite_Timeout /\ UNCHANGED <<routeVars, treeVars, fnVars>>)
  \/ \E urls \in MapResponses : (analyzeWebsite_Mapped(urls) /\ UNCHANGED <<routeVars, treeVars, fnVars>>)
  \/ (analyzeWebsite_Failed /\ UNCHANGED <<routeVars, treeVars, fnVars>>)
  \/ \E k \in NodeKeys : (toggleNode(k) /\ UNCHANGED <<routeVars, treeVars, fnVars>>)
  \/ \E k \in NodeKeys : (MapBound(MaxMapping) /\ handleMapNode(k) /\ UNCHANGED <<routeVars, treeVars, fnVars>>)
  \/ \E path \in mappingNodes : \E urls \in MapResponses : (handleMapNode_Mapped(path, urls) /\ UNCHANGED <<routeVars, treeVars, fnVars>>)
  \/ \E path \in mappingNodes : (handleMapNode_Failed(path) /\ UNCHANGED <<routeVars, treeVars, fnVars>>)
  \/ \E k \in NodeKeys : (toggleNodeSelection(k) /\ UNCHANGED <<routeVars, treeVars, fnVars>>)
  \/ (SelectAll /\ UNCHANGED <<routeVars, treeVars, fnVars>>)
  \/ (ClearAll /\ UNCHANGED <<routeVars, treeVars, fnVars>>)
  \/ \E i \in 1..Len(mapResults) : (ListCheckbox(i) /\ UNCHANGED <<routeVars, treeVars, fnVars>>)
  \/ (Back /\ UNCHANGED <<routeVars, treeVars, fnVars>>)
  \/ (startCrawl /\ UNCHANGED <<routeVars, treeVars, fnVars>>)
  \/ \E ok \in SUBSET (1..Len(crawlRequest.selectedUrls)) : (startCrawl_Success(ok) /\ UNCHANGED <<routeVars, treeVars, fnVars>>)
  \/ (startCrawl_Failed /\ UNCHANGED <<routeVars, treeVars, fnVars>>)
  \/ (startCrawl_Aborted /\ UNCHANGED <<routeVars, treeVars, fnVars>>)
  \/ (StartNewExport /\ UNCHANGED <<routeVars, treeVars, fnVars>>)
  \/ (DismissAlert /\ UNCHANGED <<routeVars, treeVars, fnVars>>)

SpecUI == InitUI /\ [][NextUI]_vars

\* the selection panel of the page: site discovery, then the tree arrows and
\* the checkboxes of the tree and of the list
SiteUniverse ==
  { MkUrl(FALSE, "a.com", <<SegB>>, ""),
    MkUrl(FALSE, "a.com", <<SegB>>, "?q"),
    MkUrl(FALSE, "a.com", <<SegB, SegP>>, ""),
    MkUrl(FALSE, "a.com", <<SegP, SegCtor>>, ""),
    MkUrl(FALSE, "c.com", <<SegCtor>>, ""),
    MkUrl(FALSE, "c.com", <<SegB>>, "") }

SiteResponses == SeqsUpTo(SiteUniverse, MaxSiteUrls)

NextSelect ==
  \/ (analyzeWebsite /\ UNCHANGED <<routeVars, treeVars, fnVars>>)
  \/ (analyzeWebsite_Timeout /\ UNCHANGED <<routeVars, treeVars, fnVars>>)
  \/ \E urls \in SiteResponses : (analyzeWebsite_Mapped(urls) /\ UNCHANGED <<routeVars, treeVars, fnVars>>)
  \/ \E k \in NodeKeys : (toggleNode(k) /\ UNCHANGED <<routeVars, treeVars, fnVars>>)
  \/ \E k \in NodeKeys : (toggleNodeSelection(k) /\ UNCHANGED <<routeVars, treeVars, fnVars>>)
  \/ (SelectAll /\ UNCHANGED <<routeVars, treeVars, fnVars>>)
  \/ (ClearAll /\ UNCHANGED <<routeVars, treeVars, fnVars>>)
  \/ \E i \in 1..Len(mapResults) : (ListCheckbox(i) /\ UNCHANGED <<routeVars, treeVars, fnVars>>)

SpecSelect == InitUI /\ [][NextSelect]_vars

\* the tree panel of the page on its own: site discovery, then map requests
\* of nodes, several of them in flight at a time
NextMap ==
  \/ (analyzeWebsite /\ UNCHANGED <<routeVars, treeVars, fnVars>>)
  \/ (analyzeWebsite_Timeout /\ UNCHANGED <<routeVars, treeVars, fnVars>>)
  \/ \E urls \in MapResponses : (analyzeWebsite_Mapped(urls) /\ UNCHANGED <<routeVars, treeVars, fnVars>>)
  \/ (analyzeWebsite_Failed /\ UNCHANGED <<routeVars, treeVars, fnVars>>)
  \/ \E k \in NodeKeys : (MapBound(MaxConcurrent) /\ handleMapNode(k) /\ UNCHANGED <<routeVars, treeVars, fnVars>>)
  \/ \E path \in mappingNodes : \E urls \in MapResponses : (handleMapNode_Mapped(path, urls) /\ UNCHANGED <<routeVars, treeVars, fnVars>>)
  \/ \E path \in mappingNodes : (handleMapNode_Failed(path) /\ UNCHANGED <<routeVars, treeVars, fnVars>>)
  \/ (DismissAlert /\ UNCHANGED <<routeVars, treeVars, fnVars>>)

SpecMap == InitUI /\ [][NextMap]_vars

\* schema inference applied to sample contents
InitInfer == RouteIdle /\ TreeIdle /\ UIInit /\ InferInit /\ TextIdle /\ CsvIdle /\ GetIdle /\ BatchIdle

NextInfer ==
  \/ (infer(inferSubject) /\ UNCHANGED <<routeVars, treeVars, uiVars, textVars, csvVars, getVars, batchVars>>)
  \/ (infer(inferOther) /\ UNCHANGED <<routeVars, treeVars, uiVars, textVars, csvVars, getVars, batchVars>>)

SpecInfer == InitInfer /\ [][NextInfer]_vars

\* the extraction of a record from the markdown of a page
InitText == RouteIdle /\ TreeIdle /\ UIInit /\ InferIdle /\ TextInit /\ CsvIdle /\ GetIdle /\ BatchIdle

NextText == extractFromMarkdown /\ UNCHANGED <<routeVars, treeVars, uiVars, inferVars, csvVars, getVars, batchVars>>

SpecText == InitText /\ [][NextText]_vars

\* the Shopify export of a record list
InitShopify == RouteIdle /\ TreeIdle /\ UIInit /\ InferIdle /\ TextIdle /\ CsvInit /\ GetIdle /\ BatchIdle

NextShopify == formatExportData_shopify /\ UNCHANGED <<routeVars, treeVars, uiVars, inferVars, textVars, getVars, batchVars>>

SpecShopify == InitShopify /\ [][NextShopify]_vars

\* the schema-inference request
InitGet == RouteIdle /\ TreeIdle /\ UIInit /\ InferIdle /\ TextIdle /\ CsvIdle /\ GetInit /\ BatchIdle

NextGet ==
  \/ (GET_Start /\ UNCHANGED <<routeVars, treeVars, uiVars, inferVars, textVars, csvVars, batchVars>>)
  \/ \E c \in SampleContents : (GET_SampleOk(c) /\ UNCHANGED <<routeVars, treeVars, uiVars, inferVars, textVars, csvVars, batchVars>>)
  \/ \E err \in ErrorTexts : (GET_SampleFail(err) /\ UNCHANGED <<routeVars, treeVars, uiVars, inferVars, textVars, csvVars, batchVars>>)
  \/ \E err \in ErrorTexts \cup {NonError} : (GET_SampleRaise(err) /\ UNCHANGED <<routeVars, treeVars, uiVars, inferVars, textVars, csvVars, batchVars>>)

SpecGet == InitGet /\ [][NextGet]_vars

\* the generic CSV export of a record list
InitCsv == RouteIdle /\ TreeIdle /\ UIInit /\ InferIdle /\ TextIdle /\ GenericInit /\ GetIdle /\ BatchIdle

NextCsv == formatExportData_csv /\ UNCHANGED <<routeVars, treeVars, uiVars, inferVars, textVars, getVars, batchVars>>

SpecCsv == InitCsv /\ [][NextCsv]_vars

\* the export step of the page: the batch size input and the export button
InitBatch == RouteIdle /\ TreeIdle /\ UIInit /\ InferIdle /\ TextIdle /\ CsvIdle /\ GetIdle /\ BatchInit

NextBatch ==
  \/ \E text \in TypedTexts : (setBatchSize(text) /\ UNCHANGED <<routeVars, treeVars, uiVars, inferVars, textVars, csvVars, getVars>>)
  \/ (startExport /\ UNCHANGED <<routeVars, treeVars, uiVars, inferVars, textVars, csvVars, getVars>>)
  \/ (startExport_Timer /\ UNCHANGED <<routeVars, treeVars, uiVars, inferVars, textVars, csvVars, getVars>>)
  \/ (startExport_AlertOk /\ UNCHANGED <<routeVars, treeVars, uiVars, inferVars, textVars, csvVars, getVars>>)

SpecBatch == InitBatch /\ [][NextBatch]_vars

\* ------------------------------------------------ properties of the route
Issued(kind) == \E i \in 1..Len(calls) : calls[i].kind = kind

FallbackRan == Issued("scrape")

\* urls of the per-URL scrapes that succeeded, in request order
SucceededUrls ==
  LET okIdx == FilterSeq([i \in 1..Len(fallbackResults) |-> i],
                         {i \in 1..Len(fallbackResults) : fallbackResults[i].success})
  IN [k \in 1..Len(okIdx) |-> req.selectedUrls[okIdx[k]]]

NumSucceeded == Cardinality({i \in 1..Len(fallbackResults) : fallbackResults[i].success})

C2_WitnessNone ==
  /\ pc = "done" /\ FallbackRan
  /\ NumSucceeded = 0 /\ response.success

\* C3 (as claimed): a parsed request with an empty selectedUrls list, handled
\* by a configured server, ends in a 400 response without records, whatever
\* schema, autoInfer, includeRaw and maxAge are.
C3_EmptySelectionIs400 ==
  (pc = "done" /\ req.bodyOk /\ apiKeyOk /\ req.selectedUrls = <<>>) =>
     (response.status = 400 /\ ~response.success /\ response.data = <<>>)

\* C5 (as claimed): a successful response names the path that ran, "bulk" or
\* "bulk_with_fallback".
C5_StrategyNamesPath ==
  (pc = "done" /\ response.success) =>
     response.strategy = (IF FallbackRan THEN "bulk_with_fallback" ELSE "bulk")

\* C5 (amended): every successful response reports the fixed strategy value
\* "mapCrawl", on the bulk path and on the fallback path alike.
C5_StrategyIsMapCrawl ==
  (pc = "done" /\ response.success) => response.strategy = "mapCrawl"

\* C5 witness: a successful response of the fallback path
C5_Witness ==
  pc = "done" /\ response.success /\ FallbackRan /\ response.strategy = "mapCrawl"

\* C6 (as claimed): whenever the sample fetch failed (success:false or
\* rejected) the handler did not abort: it resolved the default schema and,
\* given a selection, went on to the bulk call.
C6_SampleFailureFallsBack ==
  (sampleResult \in {"failure", "raised"}) =>
     /\ finalSchema = getDefaultSchema
     /\ response.status # 500
     /\ (req.selectedUrls # <<>> => Issued("batch"))

\* C7: a successful response reports creditsUsed = len(selectedUrls) + 2,
\* whatever path ran, however many pages succeeded and whatever the fetcher
\* reported.
C7_CreditsAreSelectionPlusTwo ==
  (pc = "done" /\ response.success) =>
     response.creditsUsed = Len(req.selectedUrls) + 2

\* C7 witness: a bulk success where the fetcher returned fewer pages than
\* requested and a credit figure of its own
C7_Witness ==
  /\ pc = "done" /\ response.success /\ ~FallbackRan
  /\ response.completed < response.totalPages
  /\ crawlResult.creditsUsed # Len(req.selectedUrls) + 2

\* the schema keys handed to the fetcher with each page fetch of the crawl
ExtractionSchemas ==
  {calls[i].options.jsonSchema : i \in {j \in 1..Len(calls) : calls[j].kind \in {"batch", "scrape"}}}

\* C14 (as claimed): every schema used for extraction in an accepted crawl
\* request, in the options of the bulk and per-URL fetches and in the
\* extraction of fields from markdown, has at least one property.
C14_ExtractionSchemaHasProperty ==
  /\ \A keys \in ExtractionSchemas : Len(keys) >= 1
  /\ (pc = "done" /\ response.success) => Len(finalSchema.properties) >= 1

\* the per-URL fetches issued so far, in order
IsScrape(c) == c.kind = "scrape"

ScrapeCalls == SelectSeq(calls, IsScrape)

BatchCalls == {i \in 1..Len(calls) : calls[i].kind = "batch"}

C23_Calls ==
  /\ Cardinality(BatchCalls) <= 1
  /\ (pc \in {"bulk", "perUrl"} \/ (pc = "done" /\ response.success))
       => Cardinality(BatchCalls) = 1
  /\ \A i \in 1..Len(calls) :
       IsScrape(calls[i]) =>
         \E j \in 1..(i - 1) :
           calls[j].kind = "batch" /\ calls[i].options = calls[j].options
  /\ Len(ScrapeCalls) <= Len(req.selectedUrls)
  /\ \A k \in 1..Len(ScrapeCalls) : ScrapeCalls[k].urls = <<req.selectedUrls[k]>>
  /\ Len(ScrapeCalls) - Len(fallbackResults) = (IF pc = "perUrl" THEN 1 ELSE 0)
  /\ (pc = "done" /\ FallbackRan) => Len(ScrapeCalls) = Len(req.selectedUrls)

C23_Step ==
  /\ (Len(ScrapeCalls') > Len(ScrapeCalls)) =>
       /\ Len(ScrapeCalls') = Len(ScrapeCalls) + 1
       /\ pc \in {"bulk", "perUrl"}
       /\ pc = "bulk" => (pc' = "perUrl" /\ crawlResult' = NoCrawlResult)
       /\ pc = "perUrl" => Len(fallbackResults') = Len(ScrapeCalls)
  /\ (pc = "bulk" /\ pc' = "done") => (calls' = calls /\ response'.success)

\* C23: a crawl issues exactly one bulk fetch, before every per-URL fetch;
\* per-URL fetches are issued only after the bulk call failed, each one after
\* the one before has returned, one per entry of selectedUrls and in its
\* order, with the page options of the bulk call.
C23_OneBulkThenSequentialFallback == []C23_Calls /\ [][C23_Step]_vars

\* C23 witness: a finished fallback over two different urls with a maxAge of
\* the request's own
C23_Witness ==
  /\ pc = "done" /\ FallbackRan
  /\ Len(req.selectedUrls) >= 2 /\ req.selectedUrls[1] # req.selectedUrls[2]
  /\ req.maxAge # 0
  /\ Len(ScrapeCalls) = Len(req.selectedUrls)

\* C24 (as claimed): a crawl request rejected for its configuration (status
\* 400: missing URL, empty selection, unresolved schema) is rejected before
\* any call to the fetcher, sample, bulk or per-URL.
C24_RejectedBeforeAnyFetch ==
  (pc = "done" /\ response.status = 400) => calls = <<>>

\* C27: every successful crawl response, of the bulk and of the fallback
\* path, has completed = the number of records in data, completed <=
\* totalPages, and totalPages = the number of selected URLs.
C27_CompletedIsRecordCount ==
  (pc = "done" /\ response.success) =>
     /\ response.completed = Len(response.data)
     /\ response.completed <= response.totalPages
     /\ response.totalPages = Len(req.selectedUrls)

\* C27 witness: a bulk success that returned some but not all of the pages
C27_Witness ==
  /\ pc = "done" /\ response.success /\ ~FallbackRan
  /\ response.completed >= 1
  /\ response.completed < response.totalPages


\* ------------------------------------------------- properties of the page
AbortAlert == "Crawl is taking longer than expected"

\* C4: when the overall crawl timeout aborts a crawl in flight, the crawl
\* fails as a whole: the stored crawl records are left as they were, the
\* workflow stays on its step and does not show the results step, and the
\* loading state ends.
C4_AbortReturnsNothing ==
  [][(crawlRequest.active /\ alert' = AbortAlert) =>
        /\ crawlData' = crawlData
        /\ currentStep' = currentStep /\ currentStep' # 3
        /\ loading /\ ~loading'
        /\ ~crawlRequest'.active]_vars

\* C4 witness: the abort alert is on screen after a crawl of a selection
C4_Witness ==
  /\ alert = AbortAlert
  /\ ~crawlRequest.active /\ ~loading
  /\ currentStep = 2 /\ selectedUrls # <<>> /\ crawlData = <<>>

\* ------------------------------------------ properties of the tree builder
\* the input urls that lie in the subtree of node k: they parse, belong to
\* k's domain and their path segments start with k's
UrlsUnder(urls, k) ==
  {i \in 1..Len(urls) : /\ urls[i].valid
                        /\ urls[i].host = k.host
                        /\ Len(urls[i].segs) >= Len(k.segs)
                        /\ SubSeq(urls[i].segs, 1, Len(k.segs)) = k.segs}

\* the input urls the builder skips: they do not parse, or one of their path
\* segments names an inherited object member
Skipped(urls) ==
  {i \in 1..Len(urls) :
     \/ ~urls[i].valid
     \/ \E j \in 1..Len(urls[i].segs) : urls[i].segs[j] \in InheritedNames}

RECURSIVE SumCounts(_, _)
SumCounts(t, ks) ==
  IF ks = {} THEN 0
  ELSE LET c == CHOOSE x \in ks : TRUE IN t[c].count + SumCounts(t, ks \ {c})

\* count == len(urls) + sum of the children's counts, at every node
CountsAddUp(t) ==
  \A k \in DOMAIN t : t[k].count = Len(t[k].urls) + SumCounts(t, Children(t, k))

Yielded(u, path) ==
  u = path \/ (u.valid /\ startsWith(Pathname(u.segs), Pathname(path.segs)))

\* u is in scope of the node at path: it parses, belongs to the node's domain
\* and its path segments start with the node's path segments
InScope(u, path) ==
  /\ u.valid
  /\ u.host = path.host
  /\ Len(u.segs) >= Len(path.segs)
  /\ SubSeq(u.segs, 1, Len(path.segs)) = path.segs

\* C9 (as claimed): whatever the map capability answers, a map of a leaf
\* node's path ends with at least one yielded URL in the working set and in
\* the selection.
C9_LeafMapAlwaysYields ==
  [][\A path \in mappingNodes :
       (path \notin mappingNodes' /\ IsLeaf(path)) =>
          \E u \in Range(mapResults') \cap Range(selectedUrls') : Yielded(u, path)]_vars

\* C9 (amended): a map of a leaf node's path never raises. When the map
\* capability answers with success and a url list, at least one yielded URL
\* (the path itself when nothing else qualifies) is in the working set and
\* in the selection; when it fails, the error is alerted and the working
\* set, the selection and the expanded set stay as they were.
C9_LeafMapYieldsOrAlerts ==
  [][\A path \in mappingNodes :
       (path \notin mappingNodes' /\ IsLeaf(path)) =>
          IF alert' = ""
          THEN \E u \in Range(mapResults') \cap Range(selectedUrls') : Yielded(u, path)
          ELSE /\ alert' = "Failed to map path"
               /\ UNCHANGED <<mapResults, selectedUrls, expandedNodes>>]_vars

\* C9 witness: a leaf was mapped, nothing the capability returned qualified,
\* and the path itself was added to the working set and selected
C9_Witness ==
  \E path \in expandedNodes :
    /\ expandParents(path) \subseteq expandedNodes
    /\ mappingNodes = {}
    /\ IsLeaf(path)
    /\ selectedUrls = <<path>>
    /\ mapResults # <<>> /\ mapResults[Len(mapResults)] = path

\* C10 (as claimed): every URL a map of a node adds to the working set is in
\* scope of that node.
C10_AddedUrlsInScope ==
  [][\A path \in mappingNodes :
       path \notin mappingNodes' =>
          \A u \in Range(mapResults') \ Range(mapResults) : InScope(u, path)]_vars

\* C11 (as claimed): when a map of a node completes successfully, the node's
\* path and the paths of all tree nodes above it, up to the domain node, are
\* in the expanded set.
C11_MappedNodeAndAncestorsExpanded ==
  [][\A path \in mappingNodes :
       (path \notin mappingNodes' /\ alert' = "") =>
          ({path} \cup AncestorPaths(path)) \subseteq expandedNodes']_vars

\* ------------------------------------------ properties of the working set
\* C12 (as claimed): no two URLs of the working set have the same origin and
\* path when the query string is ignored.
C12_WorkingSetDedupByBase ==
  \A i, j \in 1..Len(mapResults) :
     (mapResults[i].valid /\ mapResults[j].valid
        /\ BaseUrl(mapResults[i]) = BaseUrl(mapResults[j])) => i = j

\* ------------------------------------------- properties of the selection
\* the URLs in the subtree of node k
SubtreeUrls(k) == Range(getNodeUrls(RenderedTree, k))

\* toggling node k deselects exactly the URLs of its subtree when its state
\* is 'full' and selects all of them otherwise; URLs outside the subtree keep
\* their selection and their order
ToggleActsOnSubtree(k) ==
  LET outside == Range(selectedUrls) \ SubtreeUrls(k)
  IN /\ Range(toggledSelection(k)) =
          (IF isNodeSelected(k) = "full"
           THEN Range(selectedUrls) \ SubtreeUrls(k)
           ELSE Range(selectedUrls) \cup SubtreeUrls(k))
     /\ FilterSeq(toggledSelection(k), outside) = FilterSeq(selectedUrls, outside)

MatchingEntries(content, n) == {i \in content.matched : patterns[i].name = n}

MinOf(S) == CHOOSE x \in S : \A y \in S : x <= y

MaxOf(S) == CHOOSE x \in S : \A y \in S : x >= y

\* the property of schema s named n
Prop(s, n) == s.properties[CHOOSE i \in 1..Len(s.properties) : s.properties[i].name = n]

MatchedNames(content) == {patterns[i].name : i \in content.matched}

\* C17 (as claimed): a field populated by a matching entry of the pattern
\* table keeps the type and description of the first matching entry for it.
C17_FirstMatchWins ==
  \A k \in 1..Len(inferLog) :
    \A n \in MatchedNames(inferLog[k].content) :
      Prop(inferLog[k].schema, n) = patterns[MinOf(MatchingEntries(inferLog[k].content, n))]

\* C17 (amended): a later matching entry for the same field overwrites its
\* type and description, so the field ends with those of the last matching
\* entry; the field keeps the position among the keys it got from its first
\* matching entry.
C17_LastMatchWins ==
  \A k \in 1..Len(inferLog) :
    LET c == inferLog[k].content
        s == inferLog[k].schema
    IN /\ \A n \in MatchedNames(c) : Prop(s, n) = patterns[MaxOf(MatchingEntries(c, n))]
       /\ \A i, j \in 1..Cardinality(MatchedNames(c)) :
            i < j => MinOf(MatchingEntries(c, s.properties[i].name))
                       < MinOf(MatchingEntries(c, s.properties[j].name))

\* C17 witness: both price entries matched a content inferred from, and the
\* schema describes price as the second entry does
C17_Witness ==
  \E k \in 1..Len(inferLog) :
    /\ {1, 2} \subseteq inferLog[k].content.matched
    /\ Prop(inferLog[k].schema, "price").description = "Price information"

Extends(a, b) ==
  /\ Len(a.properties) <= Len(b.properties)
  /\ \A i \in 1..Len(a.properties) : b.properties[i] = a.properties[i]

\* C19: every inferred schema has title and description, and none of the
\* three content-type groups changes a field that is already present.
C19_BasicsPresentGroupsOnlyAdd ==
  \A k \in 1..Len(inferLog) :
    LET c == inferLog[k].content
        s2 == basicFields(patternPass(c))
        s3 == productFields(s2, c)
        s4 == articleFields(s3, c)
        s5 == contactFields(s4, c)
    IN /\ HasKey(inferLog[k].schema, "title")
       /\ HasKey(inferLog[k].schema, "description")
       /\ Extends(s2, s3) /\ Extends(s3, s4) /\ Extends(s4, s5)
       /\ inferLog[k].schema = s5

\* C19 witness: a content that matched the second price entry and the phone
\* entry and neither title nor description; the product and contact groups
\* added their other fields and left price and phone as the table set them
C19_Witness ==
  \E k \in 1..Len(inferLog) :
    /\ inferLog[k].content.matched = {2, 9}
    /\ Prop(inferLog[k].schema, "title").description = "Main title or name"
    /\ Prop(inferLog[k].schema, "price").description = "Price information"
    /\ HasKey(inferLog[k].schema, "category")
    /\ HasKey(inferLog[k].schema, "address")

\* ------------------------------ properties of extraction from markdown
\* the positions where a heading of h hash signs starts: at the start of a
\* line, the hash signs, white space, and after white space only a character
\* that is no line break
HeadingStarts(md, h) ==
  {i \in 1..Len(md) :
     /\ (i = 1 \/ md[i - 1] = "\n")
     /\ i + h <= Len(md)
     /\ \A j \in 0..(h - 1) : md[i + j] = "#"
     /\ \E p \in (i + h + 1)..Len(md) :
          (\A q \in (i + h)..(p - 1) : md[q] \in WS) /\ md[p] # "\n"}

\* the text of the first heading of h hash signs: from the last character
\* that only white space separates from the hash signs and that is no line
\* break, to the end of its line
HeadingText(md, h) ==
  LET i == MinOf(HeadingStarts(md, h))
      p == MaxOf({x \in (i + h + 1)..Len(md) :
                    (\A q \in (i + h)..(x - 1) : md[q] \in WS) /\ md[x] # "\n"})
      e == MaxOf({y \in p..Len(md) : \A r \in p..y : md[r] # "\n"})
  IN SubSeq(md, p, e)

RECURSIVE FirstNonBlankLine(_)
\* the first line with a character that is no white space, trimmed
FirstNonBlankLine(md) ==
  LET l == FirstLine(md)
  IN IF Trim(l) # <<>> THEN Trim(l)
     ELSE IF Len(l) = Len(md) THEN <<>>
     ELSE FirstNonBlankLine(SubSeq(md, Len(l) + 2, Len(md)))

\* C15 (as claimed): the date extracted from markdown is the full text of
\* the match of the first of the ordered patterns that matches, and the
\* empty string when none matches; "Published Oct 21, 2024" gives
\* "Oct 21, 2024" and "2024-03-05" gives "2024-03-05".
C15_DateIsFullMatch ==
  (structuredData.done /\ mdPage.publishedTime = <<>>) =>
    LET found == FirstDateMatch(mdPage.markdown, 1)
    IN /\ structuredData.date =
            (IF found.match.ok THEN Group0(mdPage.markdown, found.match) ELSE <<>>)
       /\ (mdPage.markdown = <<"P", "u", "b", "l", "i", "s", "h", "e", "d", " ", "O", "c", "t", " ", "2", "1", ",", " ", "2", "0", "2", "4">>)
            => structuredData.date = <<"O", "c", "t", " ", "2", "1", ",", " ", "2", "0", "2", "4">>
       /\ (mdPage.markdown = <<"2", "0", "2", "4", "-", "0", "3", "-", "0", "5">>)
            => structuredData.date = <<"2", "0", "2", "4", "-", "0", "3", "-", "0", "5">>

\* C16 (as claimed): for a page with markdown and without json or metadata
\* title, the title is the first '#' heading, else the first '##' heading,
\* else the first non-empty line of the markdown.
C16_TitleOrFirstNonEmptyLine ==
  (structuredData.done /\ mdPage.title = <<>>) =>
    structuredData.title =
      (IF HeadingStarts(mdPage.markdown, 1) # {} THEN Trim(HeadingText(mdPage.markdown, 1))
       ELSE IF HeadingStarts(mdPage.markdown, 2) # {} THEN Trim(HeadingText(mdPage.markdown, 2))
       ELSE FirstNonBlankLine(mdPage.markdown))

\* C16 (amended): the title is the metadata title of the page when it has
\* one; otherwise the trimmed text of the first '#' heading of the markdown,
\* else of the first '##' heading, else the trimmed first line of the
\* markdown, which is empty when the markdown begins with a blank line.
C16_TitleOrFirstLine ==
  structuredData.done =>
    structuredData.title =
      (IF mdPage.title # <<>> THEN mdPage.title
       ELSE IF HeadingStarts(mdPage.markdown, 1) # {} THEN Trim(HeadingText(mdPage.markdown, 1))
       ELSE IF HeadingStarts(mdPage.markdown, 2) # {} THEN Trim(HeadingText(mdPage.markdown, 2))
       ELSE Trim(FirstLine(mdPage.markdown)))

\* C16 witness: markdown without headings that begins with a blank line and
\* goes on with text, on a page without metadata title: the title extracted
\* is empty
C16_Witness ==
  /\ structuredData.done /\ mdPage.title = <<>>
  /\ mdPage.markdown = <<"\n", "c">>
  /\ structuredData.title = <<>>

\* ------------------------------------------ properties of the Shopify CSV
\* A CSV text as a reader takes it: a character is inside a quoted field when
\* an odd number of quotes precedes it (a doubled quote counts twice);
\* outside quoted fields a comma ends a field and a line feed, or a carriage
\* return that no line feed follows, ends a row; the end of the text ends the
\* last row.
QuotesIn(text) == {i \in 1..Len(text) : text[i] = "\""}

OutsideQuotes(text, i) == Cardinality({q \in QuotesIn(text) : q < i}) % 2 = 0

CommasIn(text) == {i \in 1..Len(text) : text[i] = "," /\ OutsideQuotes(text, i)}

BreaksIn(text) ==
  {i \in 1..Len(text) :
     /\ \/ text[i] = "\n"
        \/ text[i] = "\r" /\ ~(i < Len(text) /\ text[i + 1] = "\n")
     /\ OutsideQuotes(text, i)}

RowEnds(text) == BreaksIn(text) \cup {Len(text) + 1}

\* the number of fields of the row that ends at position e
ColumnsOfRow(text, e) ==
  LET breaks == BreaksIn(text)
  IN 1 + Cardinality({c \in CommasIn(text) :
                        c < e /\ \A b \in breaks : b < e => b < c})

\* C20 (as claimed): the Shopify CSV of a record list has exactly 28 columns
\* in every row, the header row included, whichever fields the records hold
\* and whatever characters (commas, quotes, line breaks) the values contain.
C20_EveryRowHas28Columns ==
  exportData.done =>
    \A e \in RowEnds(exportData.text) :
      ColumnsOfRow(exportData.text, e) = Len(shopifyHeaders)

\* ------------------------------------- properties of the GET handler
\* C22 (as claimed): when the sample fetch of a schema-inference request
\* fails with a gateway-type failure (502 / Bad Gateway), whether it resolves
\* with success:false or rejects, the response has status 503, a message and
\* the default schema as fallback, and the fetch was issued once.
C22_GatewayFailureIs503 ==
  (getPc = "done" /\ getSample.kind \in {"failure", "raised"}
     /\ getSample.text # NonError
     /\ ("502" \in getSample.text \/ "Bad Gateway" \in getSample.text)) =>
     /\ getResponse.status = 503
     /\ getResponse.error # NoMessage
     /\ getResponse.fallbackSchema = getDefaultSchema
     /\ Len(getCalls) = 1

\* ------------------------------------------ properties of the export step
\* ceil(n / b) for n >= 0 and b >= 1
CeilDiv(n, b) == (n + b - 1) \div b

\* the files of a download are the parts of data in batches of b: named
\* export-part1 .. export-part{ceil(n/b)} with the extension of the format,
\* every part but the last of b records, and together the records in order
IsInParts(download, data, b, format) ==
  LET k == CeilDiv(Len(data), b)
      files == download.files
  IN /\ Len(files) = k
     /\ \A i \in 1..k :
          /\ files[i].name = [stem |-> "export-part", part |-> i, ext |-> extensionOf(format)]
          /\ files[i].content.format = format
          /\ i < k => Len(files[i].content.records) = b
          /\ Len(files[i].content.records) \in 1..b
     /\ Concat([i \in 1..k |-> files[i].content.records]) = data
     /\ (Len(data) = 127 /\ b = 50) =>
          [i \in 1..k |-> Len(files[i].content.records)] = <<50, 50, 27>>
     /\ (Len(data) = 50 /\ b = 50) => k = 1

\* the download is one file with all the records, named by the time
IsSingleFile(download, data, format) ==
  /\ download.name = [stem |-> "export-", part |-> 0, ext |-> extensionOf(format)]
  /\ download.files = <<[name |-> download.name, content |-> Formatted(data, format)]>>

ExportRuns == exportTimer.pending /\ ~exportTimer'.pending

\* C21 (as claimed): an export of n records with batch size b produces
\* exactly ceil(n / b) parts named export-part1 .. export-part{ceil(n/b)},
\* every part but the last of b records, the parts together the record list;
\* 127 records with b = 50 give parts of 50, 50 and 27 and 50 records with
\* b = 50 give one part.
C21_ExportIsInParts ==
  [][ExportRuns =>
       IsInParts(downloads'[Len(downloads')], exportTimer.data, exportTimer.size.v,
                 exportTimer.format)]_vars

\* C21 (amended): an export of n >= 1 records with batch size b produces,
\* when ceil(n / b) >= 2, an archive export-<timestamp>.zip of exactly
\* ceil(n / b) parts named export-part1 .. export-part{ceil(n/b)}, every
\* part but the last of b records, the parts together the record list (127
\* records with b = 50 give parts of 50, 50 and 27); when ceil(n / b) = 1 (50
\* records with b = 50) it produces a single file export-<timestamp>.<ext>
\* with all the records and no part file.
C21_ExportIsInPartsOrSingle ==
  [][ExportRuns =>
       LET download == downloads'[Len(downloads')]
           n == Len(exportTimer.data)
           b == exportTimer.size.v
       IN /\ n >= 1 /\ b >= 1
          /\ IF CeilDiv(n, b) >= 2
             THEN /\ download.name = [stem |-> "export-", part |-> 0, ext |-> "zip"]
                  /\ IsInParts(download, exportTimer.data, b, exportTimer.format)
             ELSE IsSingleFile(download, exportTimer.data, exportTimer.format)]_vars

\* C21 witness: 127 records exported with the batch size 50 in three parts
C21_Witness ==
  /\ Len(batchData) = 127
  /\ Len(downloads) = 1
  /\ [i \in 1..Len(downloads[1].files) |-> Len(downloads[1].files[i].content.records)]
       = <<50, 50, 27>>

\* C30: the batch size is an integer >= 1 in every reachable state, whatever
\* was typed into its input, and the file count computed from it is a finite
\* integer >= 0.
C30_BatchSizeAtLeastOne ==
  /\ batchSize.kind = "int" /\ batchSize.v >= 1
  /\ LET fileCount == fileCountOf(Len(batchData), batchSize)
     IN fileCount.kind = "int" /\ fileCount.v >= 0

\* C30 witness: a negative number was typed and the batch size is 1
C30_Witness ==
  /\ batchTyped = <<"-", "5">>
  /\ batchSize = IntNum(1)
  /\ Len(batchData) >= 2

\* ------------------------------------------ properties of the generic CSV
RECURSIVE Ascending(_)
\* the numbers of a set in ascending order
Ascending(S) == IF S = {} THEN <<>> ELSE <<MinOf(S)>> \o Ascending(S \ {MinOf(S)})

RECURSIVE Undoubled(_)
\* doubled quotes read as one
Undoubled(str) ==
  IF str = <<>> THEN <<>>
  ELSE IF Len(str) >= 2 /\ str[1] = "\"" /\ str[2] = "\""
       THEN <<"\"">> \o Undoubled(Tail(Tail(str)))
  ELSE <<Head(str)>> \o Undoubled(Tail(str))

\* the content of a field as a reader takes it
FieldContent(field) ==
  IF Len(field) >= 2 /\ field[1] = "\"" /\ field[Len(field)] = "\""
  THEN Undoubled(SubSeq(field, 2, Len(field) - 1))
  ELSE field

\* the rows of a CSV text, each the sequence of the contents of its fields
RowsOf(text) ==
  LET ends == Ascending(RowEnds(text))
  IN [r \in 1..Len(ends) |->
        LET from == IF r = 1 THEN 0 ELSE ends[r - 1]
            cuts == Ascending({c \in CommasIn(text) : from < c /\ c < ends[r]})
                      \o <<ends[r]>>
        IN [k \in 1..Len(cuts) |->
              FieldContent(SubSeq(text, (IF k = 1 THEN from ELSE cuts[k - 1]) + 1,
                                  cuts[k] - 1))]]

\* the value of a record for a key, as text: line breaks of a string as
\* spaces, nothing for null and for a key the record does not have
ValueText(item, key) ==
  IF \E i \in 1..Len(item) : item[i].key = key
  THEN LET v == item[CHOOSE i \in 1..Len(item) : item[i].key = key].value
       IN IF v.t = "string" THEN SpaceForNewlines(v.s) ELSE joinedText(v)
  ELSE <<>>

\* C29 (as claimed): for every non-empty record list, records with other key
\* sets or key orders and with array or null values included, the generic CSV
\* has one row per record after the header row, each with as many fields as
\* the header row, and the field in column k is the record's value for the
\* k-th header key.
C29_RowsMatchHeader ==
  exportData.done =>
    LET rows == RowsOf(exportData.text)
    IN /\ Len(rows) = Len(exportItems) + 1
       /\ \A r \in 2..Len(rows) :
            /\ Len(rows[r]) = Len(rows[1])
            /\ \A k \in 1..Len(rows[1]) :
                 k <= Len(rows[r]) =>
                   rows[r][k] = ValueText(exportItems[r - 1], rows[1][k])

\* ------------------------------------------- properties: sessions of the page
\* C28: in every reachable state of the page, whatever the order of site
\* discoveries, node maps (late ones included), node and list checkboxes,
\* Select All, Clear All and resets, every selected URL is a member of the
\* working set: selectedUrls is a subset of mapResults.
C28_SelectionWithinWorkingSet == Range(selectedUrls) \subseteq Range(mapResults)

\* the selection panel has been left for step 1 and no map request is
\* pending any more, and a URL that only a node map can deliver (it carries a
\* query string) is selected
C28_Witness ==
  /\ currentStep = 1
  /\ mappingNodes = {}
  /\ \E i \in 1..Len(selectedUrls) : selectedUrls[i].valid /\ selectedUrls[i].query # ""

\* C26: once a new session has emptied the working set (Start New Export, or
\* a site discovery that found nothing), a map request of a node that is
\* still pending belongs to the session before; when it completes, it adds
\* nothing to the working set or to the selection.
C26_LateMapAddsNothing ==
  [][(mapResults = <<>> /\ mappingNodes' # mappingNodes)
       => (mapResults' = <<>> /\ selectedUrls' = <<>>)]_vars

\* the urls a successful map of the node at path adds for the response urls
\* (part_000 363-376)
urlsToAddFor(path, urls) ==
  IF Len(pathUrls(urls, path)) > 0 THEN pathUrls(urls, path) ELSE <<path>>

\* C25: a map request of a node that completes with success, whatever other
\* map requests are in flight and whichever of them completes first, leaves
\* in the working set every URL that was there before together with the URLs
\* it adds: no completion undoes what another one added (no lost update).
C25_NoLostUpdate ==
  [][\A path \in mappingNodes \ mappingNodes' :
       alert' = "" =>
         /\ Range(mapResults) \subseteq Range(mapResults')
         /\ \E urls \in MapResponses :
              Range(urlsToAddFor(path, urls)) \subseteq Range(mapResults')]_vars

\* two map requests of different nodes, both started while the working set
\* held one URL, have both completed with success: each has added one URL,
\* and the working set holds three
C25_Witness ==
  /\ mappingNodes = {}
  /\ alert = ""
  /\ Len(mapResults) = MaxUrls + 1
  /\ \E p, q \in {PathUrl(k) : k \in NodeKeys} :
       /\ p # q
       /\ expandParents(p) \cup expandParents(q) \subseteq expandedNodes

====
